---------------------------- MODULE Spec2Model ----------------------------
(***************************************************************************)
(* A model of dhstore (remram44/dhstore): the in-memory object index with  *)
(* its one-file-per-object directory, the file blob storage, the Store     *)
(* facade that composes them, and the two codecs (serialize.rs for         *)
(* objects, bencode.rs for BItems).                                        *)
(*                                                                         *)
(* Conventions.                                                            *)
(*  - A byte is an integer 0..255; a byte string, a Rust String (its UTF-8 *)
(*    bytes) and a Vec<u8> are sequences of bytes.                         *)
(*  - Option<T> is a sequence: <<>> for None, <<x>> for Some(x).           *)
(*  - An i64 is kept as sign and decimal magnitude (TLC's integers are 32  *)
(*    bits wide).                                                          *)
(*  - SHA-256 is idealised as an injective function: a digest is the       *)
(*    record of what was hashed.                                           *)
(***************************************************************************)
EXTENDS Integers, Sequences, FiniteSets, TLC

VARIABLES
    op,          \* name of the last operation that returned
    arg,         \* its argument
    ret,         \* what it returned: Ok(v), Ok(()), Err or a panic
    before,      \* Some(what the operation before it returned) when that
                 \* was the same operation on the same argument, else None
    objects,     \* MemoryIndex.objects: ID -> ObjectData
    backlinks,   \* MemoryIndex.backlinks: ID -> set of <<Backkey, ID>>
    claims,      \* MemoryIndex.claims: permanode ID -> set of claim IDs
    permanodes,  \* MemoryIndex.permanodes: ID -> Permanode
    root,        \* MemoryIndex.root
    log,         \* MemoryIndex.log: Option<ID>
    disk,        \* files of the objects directory: ID (the path) -> state
    blobs,       \* files of the blobs directory: ID (the path) -> bytes
    tmpfile,     \* the temporary file of copy_blob: Option<bytes>
    cin,         \* codec harness: the input drawn
    cout,        \* codec harness: what the codec made of it
    stream,      \* chunker: the reader's bytes, its reads, and nbits
    emitted,     \* chunker: what read_chunks gave its callback
    iter,        \* chunker: the Chunks struct and its reader's position
    yielded,     \* chunker: what the calls of next_chunk returned
    store_path,  \* the path given to create and open: its kind and names
    rootfile,    \* the root file of the target: Option of what it holds
    objdir,      \* an objects directory as open reads it: path -> file
    blobdir,     \* the blobs directory as list_blobs reads it
    listing,     \* a FileBlobIterator and the items it has yielded
    logged,      \* what the last verify logged
    walking      \* a walk in progress: its queue, its sets and its position

vars == <<op, arg, ret, before, objects, backlinks, claims, permanodes, root, log,
          disk, blobs, tmpfile, cin, cout, stream, emitted, iter, yielded,
          store_path, rootfile, objdir, blobdir, listing, logged, walking>>

storeVars == <<op, arg, ret, before, objects, backlinks, claims, permanodes, root,
               log, disk, blobs, tmpfile>>

codecVars == <<cin, cout>>

chunkVars == <<stream, emitted, iter, yielded>>

pathVars == <<store_path, rootfile, objdir>>

verifyVars == <<blobdir, listing, logged, walking>>

-----------------------------------------------------------------------------
(* Generic helpers *)

None == <<>>

Some(x) == <<x>>

Min(a, b) == IF a <= b THEN a ELSE b

\* Lexicographic comparison of two byte strings (Ord for [u8], String):
\* -1, 0 or 1.
bytes_cmp(a, b) ==
    LET n == Min(Len(a), Len(b))
        diff == {i \in 1..n : a[i] # b[i]}
    IN  IF diff = {}
        THEN IF Len(a) < Len(b) THEN -1
             ELSE IF Len(a) > Len(b) THEN 1 ELSE 0
        ELSE LET i == CHOOSE j \in diff : \A k \in diff : j <= k
             IN  IF a[i] < b[i] THEN -1 ELSE 1

\* The elements of a set of byte strings in ascending order (the iteration
\* order of a BTreeMap<String, _>).
RECURSIVE sorted_keys(_)
sorted_keys(S) ==
    IF S = {} THEN <<>>
    ELSE LET m == CHOOSE x \in S : \A y \in S : bytes_cmp(x, y) <= 0
         IN  <<m>> \o sorted_keys(S \ {m})

\* Restriction of a function to a subset of its domain.
Restrict(f, S) == [x \in S |-> f[x]]

\* f with key k set to v (HashMap::insert / BTreeMap::insert).
MapInsert(f, k, v) ==
    [x \in (DOMAIN f) \cup {k} |-> IF x = k THEN v ELSE f[x]]

EmptyMap == [x \in {} |-> x]

\* The decimal digits of a usize, most significant first.
RECURSIVE decimal(_)
decimal(n) == IF n < 10 THEN <<n>> ELSE decimal(n \div 10) \o <<n % 10>>

-----------------------------------------------------------------------------
(* Text constants of the source, as bytes *)

S_log == <<108, 111, 103>>
S_contents == <<99, 111, 110, 116, 101, 110, 116, 115>>
S_size == <<115, 105, 122, 101>>
S_dhstore_kind == <<100, 104, 115, 116, 111, 114, 101, 95, 107, 105, 110, 100>>
S_random == <<114, 97, 110, 100, 111, 109>>
S_sort == <<115, 111, 114, 116>>
S_type == <<116, 121, 112, 101>>
S_node == <<110, 111, 100, 101>>
S_value == <<118, 97, 108, 117, 101>>
S_date == <<100, 97, 116, 101>>
S_order == <<111, 114, 100, 101, 114>>
S_permanode == <<112, 101, 114, 109, 97, 110, 111, 100, 101>>
S_claim == <<99, 108, 97, 105, 109>>
S_set == <<115, 101, 116>>
S_single == <<115, 105, 110, 103, 108, 101>>
S_tree == <<116, 114, 101, 101>>
S_plus_date == <<43, 100, 97, 116, 101>>

\* Size of the hash in bytes.
HASH_SIZE == 32

-----------------------------------------------------------------------------
(* common.rs: Property, ObjectData, Object, Sort *)

\* A value of an enum is the pair of its variant and its payload: p[1] is
\* the variant, p[2] the payload.

\* An i64 as sign and magnitude; the magnitude is its decimal digits, most
\* significant first, without leading zeros (zero is <<0>>, never negative).
I64(neg, digits) == [neg |-> neg, digits |-> digits]

PString(s) == <<"String", s>>
PInteger(i) == <<"Integer", i>>
PReference(id) == <<"Reference", id>>
PBlob(id) == <<"Blob", id>>

\* ObjectData::Dict (a BTreeMap<String, Property>: a function on its keys)
\* and ObjectData::List (a Vec<Property>).
DictData(d) == <<"Dict", d>>
ListData(l) == <<"List", l>>

\* Dict::get
dict_get(d, k) == IF k \in DOMAIN d THEN Some(d[k]) ELSE None

\* The values of an object in iteration order: dict.values() in key order,
\* the list in index order.
data_values(data) ==
    IF data[1] = "Dict"
    THEN LET ks == sorted_keys(DOMAIN data[2])
         IN  [i \in 1..Len(ks) |-> data[2][ks[i]]]
    ELSE data[2]

\* Comparison of two i64 (magnitudes compare by length, then digit-wise).
i64_cmp(a, b) ==
    LET mag == IF Len(a.digits) < Len(b.digits) THEN -1
               ELSE IF Len(a.digits) > Len(b.digits) THEN 1
               ELSE bytes_cmp(a.digits, b.digits)
    IN  IF a.neg /\ ~b.neg THEN -1
        ELSE IF ~a.neg /\ b.neg THEN 1
        ELSE IF a.neg THEN -mag ELSE mag

\* Rank of a property's variant in Ord for Property: Strings, then Integers,
\* then References and Blobs together.
property_rank(p) ==
    IF p[1] = "String" THEN 0 ELSE IF p[1] = "Integer" THEN 1 ELSE 2

\* Ord for ID is the order of the raw digest bytes.  A modelled digest has
\* no bytes: only whether two ids are equal is known, and no object of the
\* model sorts by a digest.
id_cmp(a, b) == IF a = b THEN 0 ELSE 1

\* impl Ord for Property
property_cmp(p, q) ==
    IF property_rank(p) # property_rank(q)
    THEN IF property_rank(p) < property_rank(q) THEN -1 ELSE 1
    ELSE IF p[1] = "String" THEN bytes_cmp(p[2], q[2])
    ELSE IF p[1] = "Integer" THEN i64_cmp(p[2], q[2])
    ELSE id_cmp(p[2], q[2])

\* impl FromStr for Sort: Option<Sort>
sort_from_str(s) ==
    IF Len(s) >= 1 /\ s[1] = 43
    THEN Some([dir |-> "Ascending", field |-> SubSeq(s, 2, Len(s))])
    ELSE IF Len(s) >= 1 /\ s[1] = 45
    THEN Some([dir |-> "Descending", field |-> SubSeq(s, 2, Len(s))])
    ELSE None

-----------------------------------------------------------------------------
(* hash.rs: Hasher *)

\* Hasher::result after `msg` was written: the digest of msg.
Hasher_result(msg) == <<"sha256", msg>>

\* The digest hash_object gives an ObjectData in the store model: the hash
\* of "object\n" and the canonical encoding of data, which names data and
\* nothing else; the record keeps data itself as what was hashed.
object_id(data) == <<"object", data>>

\* serialize::hash_object, in the store model
index_hash_object(data) == [id |-> object_id(data), data |-> data]

-----------------------------------------------------------------------------
(* hash.rs: ID and its textual form *)

\* u8 arithmetic: shifts drop the bits that leave the byte.
shl8(x, n) == (x * (2 ^ n)) % 256
shr8(x, n) == x \div (2 ^ n)

RECURSIVE bit_or(_, _)
bit_or(a, b) ==
    IF a = 0 THEN b
    ELSE IF b = 0 THEN a
    ELSE (IF (a % 2) + (b % 2) > 0 THEN 1 ELSE 0)
         + 2 * bit_or(a \div 2, b \div 2)

RECURSIVE bit_and(_, _)
bit_and(a, b) ==
    IF a = 0 \/ b = 0 THEN 0
    ELSE (IF (a % 2) + (b % 2) = 2 THEN 1 ELSE 0)
         + 2 * bit_and(a \div 2, b \div 2)

BASE64_CHARS == <<
    65, 66, 67, 68, 69, 70, 71, 72, 73, 74, 75, 76, 77, 78, 79, 80,
    81, 82, 83, 84, 85, 86, 87, 88, 89, 90, 97, 98, 99, 100, 101, 102,
    103, 104, 105, 106, 107, 108, 109, 110, 111, 112, 113, 114, 115, 116, 117, 118,
    119, 120, 121, 122, 48, 49, 50, 51, 52, 53, 54, 55, 56, 57, 45, 95>>

\* Indexed by the character (from 0); 64 marks a character outside the
\* alphabet.
BASE64_BYTES == <<
    64, 64, 64, 64, 64, 64, 64, 64, 64, 64, 64, 64, 64, 64, 64, 64,
    64, 64, 64, 64, 64, 64, 64, 64, 64, 64, 64, 64, 64, 64, 64, 64,
    64, 64, 64, 64, 64, 64, 64, 64, 64, 64, 64, 64, 64, 62, 64, 64,
    52, 53, 54, 55, 56, 57, 58, 59, 60, 61, 64, 64, 64, 64, 64, 64,
    64, 0, 1, 2, 3, 4, 5, 6, 7, 8, 9, 10, 11, 12, 13, 14,
    15, 16, 17, 18, 19, 20, 21, 22, 23, 24, 25, 64, 64, 64, 64, 63,
    64, 26, 27, 28, 29, 30, 31, 32, 33, 34, 35, 36, 37, 38, 39, 40,
    41, 42, 43, 44, 45, 46, 47, 48, 49, 50, 51, 64, 64, 64, 64, 64>>

\* An ID given by its 32 raw bytes (ID::from_bytes).
ID_from_bytes(buf) == IF Len(buf) = 32 THEN Some([bytes |-> buf]) ELSE None

\* fn b64 of ID::str
b64_char(byte) == BASE64_CHARS[bit_and(63, byte) + 1]

\* ID::str
ID_str(id) ==
    LET bytes == id.bytes
        code == 12
        head == << b64_char(shr8(code, 2)),
                   b64_char(bit_or(shl8(code, 4), shr8(bytes[1], 4))),
                   b64_char(bit_or(shl8(bytes[1], 2), shr8(bytes[2], 6))),
                   b64_char(bytes[2]) >>
        group(i, j) ==
            LET b0 == bytes[3 + i * 3]
                b1 == bytes[4 + i * 3]
                b2 == bytes[5 + i * 3]
            IN  IF j = 0 THEN b64_char(shr8(b0, 2))
                ELSE IF j = 1 THEN b64_char(bit_or(shl8(b0, 4), shr8(b1, 4)))
                ELSE IF j = 2 THEN b64_char(bit_or(shl8(b1, 2), shr8(b2, 6)))
                ELSE b64_char(b2)
    IN  [c \in 1..44 |->
            IF c <= 4 THEN head[c]
            ELSE group(((c - 1) \div 4) - 1, (c - 1) % 4)]

\* The b64! macro of ID::from_str: the 6-bit value of a character, 64 when
\* the macro returns None.
b64_value(chr) == IF chr < 128 THEN BASE64_BYTES[chr + 1] ELSE 64

\* A from_str that never looks at the type tag.
ID_from_str_any_tag(hashstr) ==
    IF Len(hashstr) # 44 THEN None
    ELSE IF \E c \in 1..44 : b64_value(hashstr[c]) = 64 THEN None
    ELSE LET v(c) == b64_value(hashstr[c])
             out(n) ==
                 IF n = 0 THEN bit_or(shl8(v(2), 4), shr8(v(3), 2))
                 ELSE IF n = 1 THEN bit_or(shl8(v(3), 6), v(4))
                 ELSE LET i == (n - 2) \div 3
                          s == 4 * (i + 1)
                      IN  IF (n - 2) % 3 = 0
                          THEN bit_or(shl8(v(s + 1), 2), shr8(v(s + 2), 4))
                          ELSE IF (n - 2) % 3 = 1
                          THEN bit_or(shl8(v(s + 2), 4), shr8(v(s + 3), 2))
                          ELSE bit_or(shl8(v(s + 3), 6), v(s + 4))
         IN  Some([bytes |-> [n \in 1..32 |-> out(n - 1)]])

\* ID::from_str: Option<ID>
ID_from_str(hashstr) ==
    IF Len(hashstr) # 44 THEN None
    ELSE IF b64_value(hashstr[1]) = 64 \/ b64_value(hashstr[2]) = 64 THEN None
    ELSE IF bit_or(shl8(b64_value(hashstr[1]), 2),
                   shr8(b64_value(hashstr[2]), 4)) # 12 THEN None
    ELSE IF \E c \in 3..44 : b64_value(hashstr[c]) = 64 THEN None
    ELSE LET v(c) == b64_value(hashstr[c])
             out(n) ==
                 IF n = 0 THEN bit_or(shl8(v(2), 4), shr8(v(3), 2))
                 ELSE IF n = 1 THEN bit_or(shl8(v(3), 6), v(4))
                 ELSE LET i == (n - 2) \div 3
                          s == 4 * (i + 1)
                      IN  IF (n - 2) % 3 = 0
                          THEN bit_or(shl8(v(s + 1), 2), shr8(v(s + 2), 4))
                          ELSE IF (n - 2) % 3 = 1
                          THEN bit_or(shl8(v(s + 2), 4), shr8(v(s + 3), 2))
                          ELSE bit_or(shl8(v(s + 3), 6), v(s + 4))
         IN  Some([bytes |-> [n \in 1..32 |-> out(n - 1)]])


-----------------------------------------------------------------------------
(* memory_index.rs: the in-memory index *)

\* The index as one value: the four maps of MemoryIndex.
IndexOf(o, b, c, p) ==
    [objects |-> o, backlinks |-> b, claims |-> c, permanodes |-> p]

Backkey_Key(k) == <<"Key", k>>
Backkey_Index(i) == <<"Index", i>>

insert_into_multimap(multimap, key, value) ==
    MapInsert(multimap, key,
              (IF key \in DOMAIN multimap THEN multimap[key] ELSE {})
                  \cup {value})

\* BTreeMap<Property, ID>::insert on a map kept as a set of <<key, value>>:
\* a key that compares equal keeps its place and takes the new value.
btree_insert(map, k, v) ==
    IF \E e \in map : property_cmp(e[1], k) = 0
    THEN {IF property_cmp(e[1], k) = 0 THEN <<e[1], v>> ELSE e : e \in map}
    ELSE map \cup {<<k, v>>}

\* The last and the first entry of a non-empty BTreeMap.
btree_last(map) ==
    CHOOSE e \in map : \A f \in map : property_cmp(f[1], e[1]) <= 0

btree_first(map) ==
    CHOOSE e \in map : \A f \in map : property_cmp(e[1], f[1]) <= 0

\* Permanode::index_claim
Permanode_index_claim(node, claim, claim_id) ==
    LET sort_value == dict_get(claim, node.sort.field)
        kept(inserted) ==
            IF node.nodetype = "Set" THEN inserted
            ELSE IF Cardinality(inserted) > 1
            THEN {IF node.sort.dir = "Ascending"
                  THEN btree_last(inserted)
                  ELSE btree_first(inserted)}
            ELSE inserted
    IN  IF sort_value = None THEN node
        ELSE [node EXCEPT !.claims =
                 kept(btree_insert(node.claims, sort_value[1], claim_id))]

\* The loop of index_permanode over the claims recorded for the permanode,
\* in the order `order` (a HashSet iterates in no fixed order).  A claim id
\* that names no object makes the unwrap panic.
RECURSIVE replay_claims(_, _, _)
replay_claims(objs, node, order) ==
    IF order = <<>> THEN [node |-> node, panic |-> FALSE]
    ELSE IF Head(order) \notin DOMAIN objs
            \/ objs[Head(order)][1] # "Dict"
    THEN [node |-> node, panic |-> TRUE]
    ELSE replay_claims(objs,
                       Permanode_index_claim(node, objs[Head(order)][2],
                                             Head(order)),
                       Tail(order))

\* MemoryIndex::index_permanode; `order` lists self.claims[id] when there is
\* such an entry.
index_permanode(ix, object, order) ==
    LET id == object.id
        permanode == object.data[2]
        random == dict_get(permanode, S_random)
        sort == dict_get(permanode, S_sort)
        type == dict_get(permanode, S_type)
        unchanged == [ix |-> ix, panic |-> FALSE]
    IN  IF object.data[1] # "Dict" THEN [ix |-> ix, panic |-> TRUE]
        ELSE IF random = None \/ random[1][1] # "String" THEN unchanged
        ELSE IF Len(random[1][2]) # HASH_SIZE THEN unchanged
        ELSE IF sort = None \/ sort[1][1] # "String" THEN unchanged
        ELSE IF sort_from_str(sort[1][2]) = None THEN unchanged
        ELSE IF type # None /\ type[1][1] # "String" THEN unchanged
        ELSE IF type # None /\ type[1][2] \notin {S_set, S_single} THEN unchanged
        ELSE LET nodetype == IF type = None THEN "Single" ELSE "Set"
                 node == [sort |-> sort_from_str(sort[1][2])[1],
                          nodetype |-> nodetype,
                          claims |-> {}]
                 indexed(replay) ==
                     IF replay.panic THEN [ix |-> ix, panic |-> TRUE]
                     ELSE [ix |-> [ix EXCEPT !.permanodes =
                                      MapInsert(ix.permanodes, id,
                                                replay.node)],
                           panic |-> FALSE]
             IN  indexed(IF id \in DOMAIN ix.claims
                         THEN replay_claims(ix.objects, node, order)
                         ELSE [node |-> node, panic |-> FALSE])

\* MemoryIndex::index_claim
index_claim(ix, object) ==
    LET id == object.id
        claim == object.data[2]
        node == dict_get(claim, S_node)
        value == dict_get(claim, S_value)
    IN  IF object.data[1] # "Dict" THEN [ix |-> ix, panic |-> TRUE]
        ELSE IF node = None \/ value = None THEN [ix |-> ix, panic |-> FALSE]
        ELSE IF node[1][1] # "Reference" \/ value[1][1] # "Reference"
        THEN [ix |-> ix, panic |-> FALSE]
        ELSE LET permanode == node[1][2]
                 withClaim == [ix EXCEPT !.claims =
                                  insert_into_multimap(ix.claims, permanode, id)]
             IN  [ix |-> IF permanode \in DOMAIN ix.permanodes
                         THEN [withClaim EXCEPT !.permanodes[permanode] =
                                  Permanode_index_claim(ix.permanodes[permanode],
                                                        claim, id)]
                         ELSE withClaim,
                  panic |-> FALSE]

\* The back references an object records: one per value of type Reference,
\* under its dict key or its list index (from 0).
object_backlinks(object) ==
    IF object.data[1] = "Dict"
    THEN {<<object.data[2][k][2], Backkey_Key(k), object.id>> :
             k \in {j \in DOMAIN object.data[2] :
                       object.data[2][j][1] = "Reference"}}
    ELSE {<<object.data[2][i][2], Backkey_Index(i - 1), object.id>> :
             i \in {j \in DOMAIN object.data[2] :
                       object.data[2][j][1] = "Reference"}}

\* backlinks after insert_into_multimap of every element of `links`
add_backlinks(bl, links) ==
    [target \in (DOMAIN bl) \cup {l[1] : l \in links} |->
        (IF target \in DOMAIN bl THEN bl[target] ELSE {})
            \cup {<<l[2], l[3]>> : l \in {m \in links : m[1] = target}}]

\* MemoryIndex::insert_object_in_index.  Returns the index and whether the
\* call panicked (the assert, or an unwrap of index_permanode).
insert_object_in_index(ix, object, order) ==
    IF object.id \in DOMAIN ix.objects THEN [ix |-> ix, panic |-> TRUE]
    ELSE
    LET linked == [ix EXCEPT !.backlinks =
                      add_backlinks(ix.backlinks, object_backlinks(object))]
        kind == IF object.data[1] = "Dict"
                THEN dict_get(object.data[2], S_dhstore_kind)
                ELSE None
        special(with) ==
            IF kind # None /\ kind[1][1] = "String" /\ kind[1][2] = S_permanode
            THEN index_permanode(with, object, order)
            ELSE IF kind # None /\ kind[1][1] = "String" /\ kind[1][2] = S_claim
            THEN index_claim(with, object)
            ELSE [ix |-> with, panic |-> FALSE]
        inserted(s) ==
            IF s.panic THEN s
            ELSE [ix |-> [s.ix EXCEPT !.objects =
                             MapInsert(s.ix.objects, object.id, object.data)],
                  panic |-> FALSE]
    IN  inserted(special(linked))

\* A walk that visits the root and follows no reference.
walk_loop_shallow(objs, collect, open, alive, live_blobs) ==
    IF open = <<>> \/ Head(open) \notin DOMAIN objs
    THEN [alive |-> alive, live_blobs |-> live_blobs]
    ELSE LET values == data_values(objs[Head(open)])
         IN  [alive |-> alive \cup {Head(open)},
              live_blobs |->
                  IF collect
                  THEN live_blobs \cup
                       {values[i][2] : i \in {j \in DOMAIN values :
                                                 values[j][1] = "Blob"}}
                  ELSE live_blobs]

\* The walk's loop: `open` is the queue, `alive` the visited set.
RECURSIVE walk_loop(_, _, _, _, _)
walk_loop(objs, collect, open, alive, live_blobs) ==
    IF open = <<>> THEN [alive |-> alive, live_blobs |-> live_blobs]
    ELSE LET id == Head(open)
         IN  IF id \notin DOMAIN objs \/ id \in alive
             THEN walk_loop(objs, collect, Tail(open), alive, live_blobs)
             ELSE LET values == data_values(objs[id])
                      refs == SelectSeq(values, LAMBDA v : v[1] = "Reference")
                      found == {values[i][2] :
                                   i \in {j \in DOMAIN values :
                                             values[j][1] = "Blob"}}
                  IN  walk_loop(objs, collect,
                                Tail(open) \o [i \in 1..Len(refs) |-> refs[i][2]],
                                alive \cup {id},
                                IF collect THEN live_blobs \cup found
                                ELSE live_blobs)

\* MemoryIndex::walk: the objects left in memory and the set returned.
walk(objs, rootId, collect) ==
    LET kept(found) ==
            [objects |-> IF collect
                         THEN Restrict(objs, {id \in DOMAIN objs :
                                                 id \in found.alive})
                         ELSE objs,
             live_blobs |-> found.live_blobs]
    IN  kept(walk_loop(objs, collect,
                       IF rootId \in DOMAIN objs THEN <<rootId>> ELSE <<>>,
                       {}, {}))

\* MemoryIndex::write_object on the objects directory.  `io` is what the
\* file system does: "ok", "open_fails" (create_dir or the exclusive create
\* fails) or "write_fails" (the file is created, serialize fails part way).
\* An existing file makes the exclusive create fail whatever io is.
write_object(files, object, io) ==
    IF object.id \in DOMAIN files \/ io = "open_fails"
    THEN [disk |-> files, ok |-> FALSE]
    ELSE IF io = "write_fails"
    THEN [disk |-> MapInsert(files, object.id, "truncated"), ok |-> FALSE]
    ELSE [disk |-> MapInsert(files, object.id, "complete"), ok |-> TRUE]


\* What an operation returns: Ok(v), Ok(()) or Err; a panic returns nothing
\* and ends the process.
Ok(v) == [ok |-> TRUE, panic |-> FALSE, v |-> Some(v)]
OkUnit == [ok |-> TRUE, panic |-> FALSE, v |-> None]
Err == [ok |-> FALSE, panic |-> FALSE, v |-> None]
Panic == [ok |-> FALSE, panic |-> TRUE, v |-> None]

\* errors.rs: an Err whose Error is of the given class, "IoError",
\* "CorruptedStore" or "InvalidInput"
ErrOf(class) == [ok |-> FALSE, panic |-> FALSE, v |-> Some(class)]

\* An add without the contains_key test: it always writes and inserts.
MemoryIndex_add_unchecked(st, data, io, order) ==
    LET object == index_hash_object(data)
        written == write_object(st.disk, object, io)
        inserted == insert_object_in_index(st.ix, object, order)
    IN  IF ~written.ok
        THEN [ix |-> st.ix, disk |-> written.disk, ret |-> Err]
        ELSE IF inserted.panic
        THEN [ix |-> inserted.ix, disk |-> written.disk, ret |-> Panic]
        ELSE [ix |-> inserted.ix, disk |-> written.disk,
              ret |-> Ok(object.id)]

\* An add that inserts in memory before it writes the file.
MemoryIndex_add_insert_first(st, data, io, order) ==
    LET object == index_hash_object(data)
        id == object.id
    IN  IF id \in DOMAIN st.ix.objects
        THEN [ix |-> st.ix, disk |-> st.disk, ret |-> Ok(id)]
        ELSE LET inserted == insert_object_in_index(st.ix, object, order)
                 written == write_object(st.disk, object, io)
             IN  IF inserted.panic
                 THEN [ix |-> inserted.ix, disk |-> st.disk, ret |-> Panic]
                 ELSE [ix |-> inserted.ix, disk |-> written.disk,
                       ret |-> IF written.ok THEN Ok(id) ELSE Err]

\* ObjectIndex::add for MemoryIndex.  `st` holds the index (ix) and the
\* objects directory (disk); the result adds what add returns.
MemoryIndex_add(st, data, io, order) ==
    LET object == index_hash_object(data)
        id == object.id
    IN  IF id \in DOMAIN st.ix.objects
        THEN [ix |-> st.ix, disk |-> st.disk, ret |-> Ok(id)]
        ELSE LET written == write_object(st.disk, object, io)
                 added(inserted) ==
                     [ix |-> inserted.ix, disk |-> written.disk,
                      ret |-> IF inserted.panic THEN Panic ELSE Ok(id)]
             IN  IF ~written.ok
                 THEN [ix |-> st.ix, disk |-> written.disk, ret |-> Err]
                 ELSE added(insert_object_in_index(st.ix, object, order))

\* ObjectIndex::collect_garbage for MemoryIndex
MemoryIndex_collect_garbage(st, rootId) ==
    LET collected(walked) ==
            [ix |-> [st.ix EXCEPT !.objects = walked.objects],
             disk |-> st.disk,
             ret |-> Ok(walked.live_blobs)]
    IN  collected(walk(st.ix.objects, rootId, TRUE))

-----------------------------------------------------------------------------
(* file_storage.rs: FileBlobStorage.  A blob file's path is fixed by its   *)
(* id (filename), so the directory is a map from id to file contents.      *)

\* BlobStorage::get_blob
get_blob(files, id) == IF id \in DOMAIN files THEN Ok(files[id]) ELSE OkUnit

\* BlobStorage::add_known_blob.  io as for write_object; when the write
\* fails, the first `cut` bytes of the blob are in the file.
add_known_blob(files, id, blob, io, cut) ==
    IF id \in DOMAIN files THEN [blobs |-> files, ret |-> OkUnit]
    ELSE IF io = "open_fails" THEN [blobs |-> files, ret |-> Err]
    ELSE IF io = "write_fails" /\ cut < Len(blob)
    THEN [blobs |-> MapInsert(files, id, SubSeq(blob, 1, cut)), ret |-> Err]
    ELSE [blobs |-> MapInsert(files, id, blob), ret |-> OkUnit]

\* BlobStorage::add_blob
add_blob(files, blob, io, cut) ==
    LET id == Hasher_result(blob)
        added == add_known_blob(files, id, blob, io, cut)
    IN  [blobs |-> added.blobs,
         ret |-> IF added.ret.ok THEN Ok(id) ELSE Err]

\* FileBlobStorage::copy_blob with its TmpFile guard.  io: "ok",
\* "open_fails" (the temporary file cannot be opened), "write_fails"
\* (reading the input or writing the temporary file fails), "mkdir_fails",
\* "rename_fails".  Drop unlinks the temporary file unless rename was
\* called, which forgets the path whether or not the rename succeeded.
copy_blob(files, blob, io) ==
    LET id == Hasher_result(blob)
    IN  IF io = "open_fails" \/ io = "write_fails"
        THEN [blobs |-> files, tmpfile |-> None, ret |-> Err]
        ELSE IF id \in DOMAIN files
        THEN [blobs |-> files, tmpfile |-> None, ret |-> Ok(id)]
        ELSE IF io = "mkdir_fails"
        THEN [blobs |-> files, tmpfile |-> None, ret |-> Err]
        ELSE IF io = "rename_fails"
        THEN [blobs |-> files, tmpfile |-> Some(blob), ret |-> Err]
        ELSE [blobs |-> MapInsert(files, id, blob), tmpfile |-> None,
              ret |-> Ok(id)]

\* A delete_blob that fails on a blob that is not stored.
delete_blob_strict(files, id, io) ==
    IF id \notin DOMAIN files \/ io = "remove_fails"
    THEN [blobs |-> files, ret |-> Err]
    ELSE [blobs |-> Restrict(files, (DOMAIN files) \ {id}), ret |-> OkUnit]

\* BlobStorage::delete_blob; io = "remove_fails" when remove_file fails.
delete_blob(files, id, io) ==
    IF id \notin DOMAIN files THEN [blobs |-> files, ret |-> OkUnit]
    ELSE IF io = "remove_fails" THEN [blobs |-> files, ret |-> Err]
    ELSE [blobs |-> Restrict(files, (DOMAIN files) \ {id}), ret |-> OkUnit]

-----------------------------------------------------------------------------
(* file_storage.rs: list_blobs and verify.  The blobs directory is a      *)
(* sequence, in the order it is listed, of first-level entries            *)
(* [name, dir, files]: name is "hex" (two hexadecimal characters), "two"  *)
(* (two other characters), "long" (not two characters) or "not_unicode";  *)
(* dir tells whether read_dir of the entry succeeds; files is the         *)
(* sequence of its entries, each <<"blob", id>> (the 62 characters that   *)
(* follow the directory's two in the hexadecimal form of id),             *)
(* <<"long", <<>>>> (not 62 characters), <<"not_hex", <<>>>> (62 that are *)
(* not hexadecimal) or <<"not_unicode", <<>>>>.                           *)

DirEntry(name, dir, files) == [name |-> name, dir |-> dir, files |-> files]

\* ID::from_hex of the directory's two characters and the file's name
ID_from_hex(first_val, file) ==
    IF first_val = "hex" /\ file[1] = "blob" THEN Some(file[2]) ELSE None

\* list_blobs: the iterator at the start of the directory
list_blobs(tree) == [first |-> tree, first_val |-> "", second |-> None]

\* An iterator that ends at the first entry it cannot name.
RECURSIVE FileBlobIterator_next_stopping(_)
FileBlobIterator_next_stopping(self) ==
    IF self.second = None
    THEN IF self.first = <<>> THEN [self |-> self, item |-> None]
         ELSE LET entry == Head(self.first)
                  rest == [self EXCEPT !.first = Tail(@)]
              IN  IF entry.name \in {"long", "not_unicode"} \/ ~entry.dir
                  THEN [self |-> [rest EXCEPT !.first = <<>>], item |-> None]
                  ELSE FileBlobIterator_next_stopping(
                           [rest EXCEPT !.first_val = entry.name,
                                        !.second = Some(entry.files)])
    ELSE IF self.second[1] = <<>>
    THEN FileBlobIterator_next_stopping([self EXCEPT !.second = None])
    ELSE LET entry == Head(self.second[1])
             rest == [self EXCEPT !.second = Some(Tail(@[1]))]
         IN  IF ID_from_hex(self.first_val, entry) = None
             THEN [self |-> [rest EXCEPT !.first = <<>>, !.second = None],
                   item |-> None]
             ELSE [self |-> rest,
                   item |-> Some(Ok(ID_from_hex(self.first_val, entry)[1]))]

\* FileBlobIterator::next: item is None at the end, else Some(Ok(id)) or
\* Some(Err)
RECURSIVE FileBlobIterator_next(_)
FileBlobIterator_next(self) ==
    IF self.second = None
    THEN IF self.first = <<>> THEN [self |-> self, item |-> None]
         ELSE LET entry == Head(self.first)
                  rest == [self EXCEPT !.first = Tail(@)]
              IN  IF entry.name \in {"long", "not_unicode"}
                  THEN [self |-> rest, item |-> Some(Err)]
                  ELSE IF ~entry.dir
                  THEN [self |-> [rest EXCEPT !.first_val = entry.name],
                        item |-> Some(Err)]
                  ELSE FileBlobIterator_next(
                           [rest EXCEPT !.first_val = entry.name,
                                        !.second = Some(entry.files)])
    ELSE IF self.second[1] = <<>>
    THEN FileBlobIterator_next([self EXCEPT !.second = None])
    ELSE LET entry == Head(self.second[1])
             rest == [self EXCEPT !.second = Some(Tail(@[1]))]
         IN  IF entry[1] \in {"long", "not_unicode"}
             THEN [self |-> rest, item |-> Some(Err)]
             ELSE IF ID_from_hex(self.first_val, entry) = None
             THEN [self |-> rest, item |-> Some(Err)]
             ELSE [self |-> rest,
                   item |-> Some(Ok(ID_from_hex(self.first_val, entry)[1]))]

\* FileBlobStorage::verify: what the loop body logs for an item
verify_item(files, item) ==
    IF ~item.ok THEN <<"error_listing", <<>>>>
    ELSE IF ~get_blob(files, item.v[1]).ok
    THEN <<"error_getting", item.v[1]>>
    ELSE IF get_blob(files, item.v[1]).v = None
    THEN <<"error_getting", item.v[1]>>
    ELSE IF item.v[1] # Hasher_result(get_blob(files, item.v[1]).v[1])
    THEN <<"wrong_hash", item.v[1]>>
    ELSE <<"checked", item.v[1]>>

\* FileBlobStorage::verify: the for loop over list_blobs
RECURSIVE verify_loop(_, _, _)
verify_loop(files, it, out) ==
    LET got(r) ==
            IF r.item = None THEN out
            ELSE verify_loop(files, r.self,
                             Append(out, verify_item(files, r.item[1])))
    IN  got(FileBlobIterator_next(it))

\* A verify that fails when a blob has the wrong hash or an entry cannot
\* be listed.
FileBlobStorage_verify_strict(files, tree, io) ==
    IF io = "list_fails" THEN [ret |-> Err, log |-> <<>>]
    ELSE LET done(l) ==
                 [ret |-> IF \E i \in 1..Len(l) : l[i][1] # "checked"
                          THEN Err ELSE OkUnit,
                  log |-> l]
         IN  done(verify_loop(files, list_blobs(tree), <<>>))

\* FileBlobStorage::verify; io is "list_fails" when the blobs directory
\* cannot be read.  log is what it logs, in order.
FileBlobStorage_verify(files, tree, io) ==
    IF io = "list_fails" THEN [ret |-> Err, log |-> <<>>]
    ELSE [ret |-> OkUnit, log |-> verify_loop(files, list_blobs(tree), <<>>)]

\* Store::verify: the index's verify (walk without collection), then the
\* storage's.
Store_verify(objs, rootId, files, tree, io) ==
    LET verified(w, v) == [objects |-> w.objects, ret |-> v.ret, log |-> v.log]
    IN  verified(walk(objs, rootId, FALSE),
                 FileBlobStorage_verify(files, tree, io))

-----------------------------------------------------------------------------
(* common.rs: EnumerableBlobStorage *)

\* The blobs collect_garbage hands to delete_blob.
blobs_to_delete(files, alive) == {id \in DOMAIN files : id \in alive}

\* EnumerableBlobStorage::collect_garbage.  `done` is the set of blobs
\* delete_blob removed before the listing or a removal failed (all of the
\* blobs to delete when nothing failed); list_blobs yields the directory in
\* no fixed order.
blob_collect_garbage(files, alive, done) ==
    [blobs |-> Restrict(files, (DOMAIN files) \ done),
     ret |-> IF done = blobs_to_delete(files, alive) THEN OkUnit ELSE Err]

-----------------------------------------------------------------------------
(* lib.rs: Store *)

\* `size as i64` for the sizes of the model
size_as_i64(n) == I64(FALSE, decimal(n))

RECURSIVE total_len(_)
total_len(chunks) ==
    IF chunks = <<>> THEN 0 ELSE Len(Head(chunks)) + total_len(Tail(chunks))

\* The loop of Store::add_file over the chunks the chunker cuts, each under
\* MAX_LEN: add_blob for each, until one fails.  ios[i] is what the file
\* system does for the i-th chunk.
RECURSIVE add_chunks(_, _, _)
add_chunks(files, chunks, ios) ==
    IF chunks = <<>> THEN [blobs |-> files, ids |-> <<>>, ok |-> TRUE]
    ELSE LET r == add_blob(files, Head(chunks), Head(ios), 0)
         IN  IF ~r.ret.ok THEN [blobs |-> r.blobs, ids |-> <<>>, ok |-> FALSE]
             ELSE LET rest == add_chunks(r.blobs, Tail(chunks), Tail(ios))
                  IN  [blobs |-> rest.blobs,
                       ids |-> <<r.ret.v[1]>> \o rest.ids,
                       ok |-> rest.ok]

\* Store::add_file.  `read` is "read_fails" when the reader fails, in which
\* case nothing was added (the blobs are added when the chunker ends).
Store_add_file(st, files, chunks, read, ios) ==
    LET n == Len(chunks)
        list(ids) == ListData([i \in 1..n |-> PBlob(ids[i])])
        indexed(added, r) ==
            [ix |-> r.ix, disk |-> r.disk, blobs |-> added.blobs,
             ret |-> IF r.ret.ok THEN Ok(<<r.ret.v[1], total_len(chunks)>>)
                     ELSE r.ret]
        listed(added) ==
            IF ~added.ok
            THEN [ix |-> st.ix, disk |-> st.disk, blobs |-> added.blobs,
                  ret |-> Err]
            ELSE indexed(added,
                         MemoryIndex_add(st, list(added.ids), ios[n + 1],
                                         <<>>))
    IN  IF read = "read_fails"
        THEN [ix |-> st.ix, disk |-> st.disk, blobs |-> files, ret |-> Err]
        ELSE listed(add_chunks(files, chunks, ios))

\* Store::add on the path of a regular file
Store_add(st, files, chunks, read, ios) ==
    LET n == Len(chunks)
        map(contents_id, size) ==
            (S_size :> PInteger(size_as_i64(size))) @@
            (S_contents :> PReference(contents_id))
        described(file, r) ==
            [ix |-> r.ix, disk |-> r.disk, blobs |-> file.blobs,
             ret |-> r.ret]
        added(file) ==
            IF ~file.ret.ok THEN file
            ELSE described(file,
                           MemoryIndex_add([ix |-> file.ix,
                                            disk |-> file.disk],
                                           DictData(map(file.ret.v[1][1],
                                                        file.ret.v[1][2])),
                                           ios[n + 2], <<>>))
    IN  added(Store_add_file(st, files, chunks, read, ios))

\* Store::collect_garbage: the index collection, then the blob sweep with
\* the set it returned.
Store_collect_garbage(st, files, rootId, done) ==
    LET swept(collected) ==
            LET sweep == blob_collect_garbage(files, collected.ret.v[1], done)
            IN  [ix |-> collected.ix, disk |-> collected.disk,
                 blobs |-> sweep.blobs, ret |-> sweep.ret]
    IN  swept(MemoryIndex_collect_garbage(st, rootId))

\* permanode: data with a "random" key of 32 random bytes, hashed
permanode(data, random) ==
    index_hash_object(
        DictData(MapInsert(data, S_random, PString(ID_str(random)))))

\* The objects create writes: the log permanode and the root configuration.
create_log(random) ==
    permanode((S_type :> PString(S_set)) @@ (S_order :> PString(S_date)),
              random)

create_config(random) ==
    index_hash_object(DictData(S_log :> PReference(create_log(random).id)))

\* The target path: what it is, and the names in it when a directory.
Path(kind, names) == [kind |-> kind, names |-> names]

\* The root file: holding the 44 characters of id.str(), a part of them,
\* or nothing yet.
RootText(id) == <<"text", id>>
RootPartial(id) == <<"partial", id>>
RootEmpty == <<"empty", <<>>>>

\* MemoryIndex::create: write_object for each object, until one fails
RECURSIVE MemoryIndex_create(_, _, _)
MemoryIndex_create(files, objs, ios) ==
    IF objs = <<>> THEN [disk |-> files, ok |-> TRUE]
    ELSE LET written(w) ==
                 IF ~w.ok THEN w
                 ELSE MemoryIndex_create(w.disk, Tail(objs), Tail(ios))
         IN  written(write_object(files, Head(objs), Head(ios)))

\* What create leaves and returns.
Created(t, rf, files, r) ==
    [path |-> t, rootfile |-> rf, disk |-> files, ret |-> r]

\* A create that writes the log permanode only, not the configuration.
create_without_config(t, rf, files, random, ios) ==
    IF t.kind = "file" \/ (t.kind = "dir" /\ t.names # {}) \/ ios[1] # "ok"
    THEN Created(t, rf, files, Err)
    ELSE IF ios[2] # "ok" THEN Created(Path("dir", {}), rf, files, Err)
    ELSE IF ios[3] # "ok" THEN Created(Path("dir", {"blobs"}), rf, files, Err)
    ELSE IF ios[4] # "ok"
    THEN Created(Path("dir", {"blobs", "objects"}), rf, files, Err)
    ELSE LET made == Path("dir", {"blobs", "objects", "root"})
             wrote(w) ==
                 IF ~w.ok THEN Created(made, Some(RootEmpty), w.disk, Err)
                 ELSE IF ios[7] # "ok"
                 THEN Created(made,
                              Some(RootPartial(create_config(random).id)),
                              w.disk, Err)
                 ELSE Created(made, Some(RootText(create_config(random).id)),
                              w.disk, OkUnit)
         IN  wrote(MemoryIndex_create(files, <<create_log(random)>>,
                                      SubSeq(ios, 5, 6)))

\* create.  ios[1..7] is what the file system does at: listing or making
\* the target directory, making blobs, making objects, creating the root
\* file, writing the log permanode, writing the configuration, writing the
\* root file.
create(t, rf, files, random, ios) ==
    IF t.kind = "file" \/ (t.kind = "dir" /\ t.names # {}) \/ ios[1] # "ok"
    THEN Created(t, rf, files, Err)
    ELSE IF ios[2] # "ok" THEN Created(Path("dir", {}), rf, files, Err)
    ELSE IF ios[3] # "ok" THEN Created(Path("dir", {"blobs"}), rf, files, Err)
    ELSE IF ios[4] # "ok"
    THEN Created(Path("dir", {"blobs", "objects"}), rf, files, Err)
    ELSE LET made == Path("dir", {"blobs", "objects", "root"})
             wrote(w) ==
                 IF ~w.ok THEN Created(made, Some(RootEmpty), w.disk, Err)
                 ELSE IF ios[7] # "ok"
                 THEN Created(made,
                              Some(RootPartial(create_config(random).id)),
                              w.disk, Err)
                 ELSE Created(made, Some(RootText(create_config(random).id)),
                              w.disk, OkUnit)
         IN  wrote(MemoryIndex_create(files,
                                      <<create_log(random),
                                        create_config(random)>>,
                                      SubSeq(ios, 5, 6)))

\* What serialize::deserialize makes of each file of the objects
\* directory: a file that write_object wrote whole holds the object its
\* path names, a truncated one is no object.
deserialized(files) ==
    [p \in DOMAIN files |->
        IF files[p] = "complete" THEN Some(p[2]) ELSE None]

\* MemoryIndex::open: the loop over the files of the objects directory, in
\* the order the directory lists them.  files[p] is what deserialize reads
\* from the file at path p: Some(data), or None when it fails.  The object
\* inserted is the one deserialize returns, with the id it computed.  The
\* claims recorded for a permanode are replayed in one of the orders its
\* HashSet may yield; the directories opened here hold at most one claim
\* for a permanode, which leaves one order.
RECURSIVE open_load(_, _, _)
open_load(ix, files, order) ==
    IF order = <<>> THEN [ix |-> ix, ret |-> OkUnit]
    ELSE IF files[Head(order)] = None
    THEN [ix |-> ix, ret |-> ErrOf("IoError")]
    ELSE LET object == index_hash_object(files[Head(order)][1])
             inserted(r) ==
                 IF r.panic THEN [ix |-> r.ix, ret |-> Panic]
                 ELSE open_load(r.ix, files, Tail(order))
         IN  inserted(insert_object_in_index(
                          ix, object,
                          IF object.id \in DOMAIN ix.claims
                          THEN CHOOSE s \in [1..Cardinality(
                                                    ix.claims[object.id])
                                               -> ix.claims[object.id]] :
                                   \A i, j \in DOMAIN s :
                                      s[i] = s[j] => i = j
                          ELSE <<>>))

\* MemoryIndex::open: "Parse root config", Ok(the log) or Err
open_log(ix, rootId) ==
    IF rootId \notin DOMAIN ix.objects THEN ErrOf("CorruptedStore")
    ELSE IF ix.objects[rootId][1] # "Dict" THEN ErrOf("CorruptedStore")
    ELSE LET l == dict_get(ix.objects[rootId][2], S_log)
         IN  IF l = None THEN Ok(None)
             ELSE IF l[1][1] # "Reference" THEN ErrOf("CorruptedStore")
             ELSE IF l[1][2] \notin DOMAIN ix.objects
             THEN ErrOf("CorruptedStore")
             ELSE IF ix.objects[l[1][2]][1] # "Dict"
             THEN ErrOf("CorruptedStore")
             ELSE Ok(Some(l[1][2]))

\* What open returns: Ok with the index, its root and its log, or not.
Opened(ix, rootId, l, r) ==
    [ix |-> ix, root |-> rootId, log |-> l, ret |-> r]

\* MemoryIndex::open
MemoryIndex_open(files, rootId, order) ==
    LET nothing == IndexOf(EmptyMap, EmptyMap, EmptyMap, EmptyMap)
        parsed(ix, l) ==
            IF l.ok THEN Opened(ix, rootId, l.v[1], OkUnit)
            ELSE Opened(nothing, rootId, None, l)
        loaded(r) ==
            IF ~r.ret.ok THEN Opened(nothing, rootId, None, r.ret)
            ELSE parsed(r.ix, open_log(r.ix, rootId))
    IN  loaded(open_load(nothing, files, order))

\* open.  io is "fails" when the file system fails at one of its reads;
\* order is the order in which the objects directory lists its files.
open(t, rf, files, order, io) ==
    LET nothing == IndexOf(EmptyMap, EmptyMap, EmptyMap, EmptyMap)
        failed == Opened(nothing, None, None, Err)
    IN  IF t.kind = "absent" \/ io = "fails" THEN failed
        ELSE IF t.kind = "file" \/ "root" \notin t.names THEN failed
        ELSE IF rf[1][1] # "text" THEN failed
        ELSE IF "objects" \notin t.names THEN failed
        ELSE MemoryIndex_open(deserialized(files), rf[1][2], order)

-----------------------------------------------------------------------------
(* serialize.rs: the object codec *)

is_digit(b) == 48 <= b /\ b <= 57

\* The text of a number as Display writes it: ASCII decimal digits.
decimal_text(n) == [i \in 1..Len(decimal(n)) |-> 48 + decimal(n)[i]]

RECURSIVE concat(_)
concat(seqs) == IF seqs = <<>> THEN <<>> ELSE Head(seqs) \o concat(Tail(seqs))

\* "object\n", what every object hash starts with
S_object_nl == <<111, 98, 106, 101, 99, 116, 10>>

\* "d1:d12:dhstore_00011:r", what serialize writes before the data
S_header == <<100, 49, 58, 100, 49, 50, 58, 100, 104, 115, 116, 111, 114, 101, 95, 48, 48, 48, 49, 49, 58, 114>>

S_dhstore_0001 == <<100, 104, 115, 116, 111, 114, 101, 95, 48, 48, 48, 49>>
S_d1d == <<100, 49, 58, 100>>
S_1r == <<49, 58, 114>>
S_e == <<101>>
S_ref == <<114, 101, 102>>
S_blob == <<98, 108, 111, 98>>

\* write_str: the length in bytes, a colon, the string
write_str(string) == decimal_text(Len(string)) \o <<58>> \o string

\* write_ref
write_ref(id, blob) ==
    (IF blob THEN <<100, 52, 58, 98, 108, 111, 98>>
     ELSE <<100, 51, 58, 114, 101, 102>>)
        \o write_str(ID_str(id)) \o S_e

\* Display for i64: a minus sign for a negative, then the digits
i64_text(i) ==
    (IF i.neg THEN <<45>> ELSE <<>>)
        \o [k \in 1..Len(i.digits) |-> 48 + i.digits[k]]

\* write_property
write_property(prop) ==
    IF prop[1] = "String" THEN write_str(prop[2])
    ELSE IF prop[1] = "Integer" THEN <<105>> \o i64_text(prop[2]) \o S_e
    ELSE IF prop[1] = "Reference" THEN write_ref(prop[2], FALSE)
    ELSE write_ref(prop[2], TRUE)

\* write_data: a BTreeMap iterates in the order of its keys
write_data(data) ==
    IF data[1] = "Dict"
    THEN LET ks == sorted_keys(DOMAIN data[2])
         IN  <<100>>
             \o concat([i \in 1..Len(ks) |->
                          write_str(ks[i]) \o write_property(data[2][ks[i]])])
             \o S_e
    ELSE <<108>>
         \o concat([i \in 1..Len(data[2]) |-> write_property(data[2][i])])
         \o S_e

\* serialize::hash_object: the digest of "object\n" and the encoded data
hash_object(data) ==
    [id |-> Hasher_result(S_object_nl \o write_data(data)), data |-> data]

\* serialize::serialize; `debug` is whether the build has debug assertions
\* (or is a test build), which makes it check the digest and panic.
serialize(object, debug) ==
    LET body == write_data(object.data)
    IN  IF debug /\ Hasher_result(S_object_nl \o body) # object.id
        THEN [ok |-> FALSE, panic |-> TRUE, bytes |-> S_header \o body]
        ELSE [ok |-> TRUE, panic |-> FALSE,
              bytes |-> S_header \o body \o S_e]

\* An io::Error of deserialize: its kind, and the message logged with it.
IoErr(kind, why) == [ok |-> FALSE, err |-> kind, why |-> why]
invalid(why) == IoErr("InvalidData", why)
UnexpectedEof == IoErr("UnexpectedEof", "")

\* An Item read, and the number of bytes read so far.
ItemOk(item, pos) == [ok |-> TRUE, item |-> item, pos |-> pos]

\* i64::MAX, as digits
I64_MAX == <<9, 2, 2, 3, 3, 7, 2, 0, 3, 6, 8, 5, 4, 7, 7, 5, 8, 0, 7>>

\* nb.overflowing_mul(10) then overflowing_add(d) on a non-negative nb
\* given by its digits: None when either overflows.
i64_mul10_add(nb, d) ==
    LET n == IF nb = <<0>> THEN <<d>> ELSE Append(nb, d)
    IN  IF Len(n) > Len(I64_MAX)
           \/ (Len(n) = Len(I64_MAX) /\ bytes_cmp(n, I64_MAX) > 0)
        THEN None ELSE Some(n)

\* String::push(byte as char) for each byte of src in turn: a char is
\* U+0000..U+00FF, and the String holds its UTF-8 encoding, of one byte
\* below 128 and of two from 128 on.
push_chars(src) ==
    LET wide(j) == src[j] >= 128
        at == [i \in 1..Len(src) |->
                 i + Cardinality({j \in 1..(i - 1) : wide(j)})]
        total == Len(src) + Cardinality({j \in 1..Len(src) : wide(j)})
    IN  [k \in 1..total |->
           LET i == CHOOSE j \in 1..Len(src) :
                      at[j] = k \/ (wide(j) /\ at[j] + 1 = k)
           IN  IF ~wide(i) THEN src[i]
               ELSE IF at[i] = k THEN 192 + (src[i] \div 64)
               ELSE 128 + (src[i] % 64)]

\* dict.keys().next_back() of a non-empty BTreeMap
last_key(dict) ==
    CHOOSE k \in DOMAIN dict : \A j \in DOMAIN dict : bytes_cmp(j, k) <= 0

\* The two tests read_item makes on a dict key: None, or the message of
\* the error it returns.
read_key_check(dict, key) ==
    IF DOMAIN dict # {} /\ bytes_cmp(last_key(dict), key) > 0
    THEN Some("dict key is out of order")
    ELSE IF key \in DOMAIN dict
    THEN Some("duplicate key in dict")
    ELSE None

RECURSIVE read_item(_, _)
RECURSIVE read_dict(_, _, _)
RECURSIVE read_list(_, _, _)
RECURSIVE read_len(_, _, _)
RECURSIVE read_int(_, _, _)

\* read_item, string branch: the `for _ in 0..len` loop, which fails at
\* the end of the bytes
read_chars(b, pos, len) ==
    IF pos + len > Len(b) THEN UnexpectedEof
    ELSE ItemOk(<<"String", push_chars(SubSeq(b, pos + 1, pos + len))>>,
                pos + len)

\* read_item, string branch: the loop over the length (the lengths of the
\* model stay far below usize::MAX)
read_len(b, pos, len) ==
    IF pos >= Len(b) THEN UnexpectedEof
    ELSE LET c == b[pos + 1]
         IN  IF is_digit(c) THEN read_len(b, pos + 1, len * 10 + (c - 48))
             ELSE IF c = 58 THEN read_chars(b, pos + 1, len)
             ELSE invalid("invalid string length")

\* read_item, integer branch: the loop; nb is never negative
read_int(b, pos, nb) ==
    IF pos >= Len(b) THEN UnexpectedEof
    ELSE LET d == b[pos + 1]
         IN  IF is_digit(d)
             THEN LET n == i64_mul10_add(nb, d - 48)
                  IN  IF n = None THEN invalid("integer overflow")
                      ELSE read_int(b, pos + 1, n[1])
             ELSE IF d = 101
             THEN ItemOk(<<"Integer", I64(FALSE, nb)>>, pos + 1)
             ELSE invalid("invalid character in integer")

\* read_item, dict branch: the loop
read_dict(b, pos, dict) ==
    LET k == read_item(b, pos)
    IN  IF ~k.ok THEN k
        ELSE IF k.item[1] = "End" THEN ItemOk(<<"Dict", dict>>, k.pos)
        ELSE IF k.item[1] # "String" THEN invalid("invalid dict key")
        ELSE IF read_key_check(dict, k.item[2]) # None
        THEN invalid(read_key_check(dict, k.item[2])[1])
        ELSE LET v == read_item(b, k.pos)
             IN  IF ~v.ok THEN v
                 ELSE IF v.item[1] = "End"
                 THEN invalid("missing value for key in dict")
                 ELSE read_dict(b, v.pos, MapInsert(dict, k.item[2], v.item))

\* read_item, list branch: the loop
read_list(b, pos, list) ==
    LET v == read_item(b, pos)
    IN  IF ~v.ok THEN v
        ELSE IF v.item[1] = "End" THEN ItemOk(<<"List", list>>, v.pos)
        ELSE read_list(b, v.pos, Append(list, v.item))

\* read_item on the bytes b, of which pos are read
read_item(b, pos) ==
    IF pos >= Len(b) THEN UnexpectedEof
    ELSE LET c == b[pos + 1]
         IN  IF c = 100 THEN read_dict(b, pos + 1, EmptyMap)
             ELSE IF c = 108 THEN read_list(b, pos + 1, <<>>)
             ELSE IF is_digit(c) THEN read_len(b, pos + 1, c - 48)
             ELSE IF c = 105 THEN read_int(b, pos + 1, <<0>>)
             ELSE IF c = 101 THEN ItemOk(<<"End", <<>> >>, pos + 1)
             ELSE invalid("invalid item")

\* convert_property: Option<Property>
convert_property(item) ==
    IF item[1] = "String" THEN Some(PString(item[2]))
    ELSE IF item[1] = "Integer" THEN Some(PInteger(item[2]))
    ELSE IF item[1] = "Dict" /\ Cardinality(DOMAIN item[2]) = 1
    THEN LET k == CHOOSE x \in DOMAIN item[2] : TRUE
             v == item[2][k]
             id == IF v[1] = "String" THEN ID_from_str(v[2]) ELSE None
         IN  IF id = None THEN None
             ELSE IF k = S_ref THEN Some(PReference(id[1]))
             ELSE IF k = S_blob THEN Some(PBlob(id[1]))
             ELSE None
    ELSE None

\* expect: read_exact of Len(what) bytes, which must be `what`
expect(b, pos, what) ==
    IF pos + Len(what) > Len(b) THEN UnexpectedEof
    ELSE IF SubSeq(b, pos + 1, pos + Len(what)) # what THEN invalid("")
    ELSE [ok |-> TRUE, pos |-> pos + Len(what)]

\* The end of deserialize: the Item read as the object's data, converted.
convert_data(obj) ==
    IF obj[1] = "Dict"
    THEN IF \E k \in DOMAIN obj[2] : convert_property(obj[2][k]) = None
         THEN None
         ELSE Some(DictData([k \in DOMAIN obj[2] |->
                                 convert_property(obj[2][k])[1]]))
    ELSE IF obj[1] = "List"
    THEN IF \E i \in DOMAIN obj[2] : convert_property(obj[2][i]) = None
         THEN None
         ELSE Some(ListData([i \in DOMAIN obj[2] |->
                                 convert_property(obj[2][i])[1]]))
    ELSE None

\* serialize::deserialize of the bytes b.  The id is the digest of
\* "object\n" and of the bytes read_item read for the data.
deserialize(b) ==
    LET e1 == expect(b, 0, S_d1d)
        fmt == read_item(b, e1.pos)
        e2 == expect(b, fmt.pos, S_1r)
        obj == read_item(b, e2.pos)
        id == Hasher_result(S_object_nl \o SubSeq(b, e2.pos + 1, obj.pos))
        e3 == expect(b, obj.pos, S_e)
        data == convert_data(obj.item)
    IN  IF ~e1.ok THEN e1
        ELSE IF ~fmt.ok THEN fmt
        ELSE IF fmt.item[1] # "String" THEN invalid("")
        ELSE IF fmt.item[2] # S_dhstore_0001 THEN invalid("unknown format")
        ELSE IF ~e2.ok THEN e2
        ELSE IF ~obj.ok THEN obj
        ELSE IF ~e3.ok THEN e3
        ELSE IF e3.pos < Len(b) THEN invalid("trailing bytes")
        ELSE IF data = None
        THEN invalid(IF obj.item[1] = "Dict" THEN "invalid dict value"
                     ELSE IF obj.item[1] = "List" THEN "invalid list value"
                     ELSE "invalid object type")
        ELSE [ok |-> TRUE, object |-> [id |-> id, data |-> data[1]]]

-----------------------------------------------------------------------------
(* bencode.rs: BItem *)

\* const MAX_DEPTH: u32 = 32 in the source.  The model nests containers
\* around a smaller depth and keeps each comparison with MAX_DEPTH as the
\* source makes it.
MAX_DEPTH == 3

\* i32::MAX
I32_MAX == 2147483647

\* val.checked_mul(10).and_then(|v| v.checked_add(d)) on a non-negative val
checked_mul10_add(val, d) ==
    IF val > (I32_MAX - d) \div 10 THEN None ELSE Some(val * 10 + d)

BErr(kind) == [ok |-> FALSE, err |-> kind]
BOk(item, pos) == [ok |-> TRUE, item |-> item, pos |-> pos]

\* A test of the key that never looks at the order.
dict_key_check_unordered(last, key, allow_out_of_order) ==
    IF last # None /\ last[1] = key THEN Some("DuplicatedKey") ELSE None

\* The tests of the dictionary loop on a key, given the key before it:
\* None, or the error returned.
dict_key_check(last, key, allow_out_of_order) ==
    IF last # None /\ last[1] = key THEN Some("DuplicatedKey")
    ELSE IF last # None /\ ~allow_out_of_order /\ bytes_cmp(last[1], key) > 0
    THEN Some("OutOfOrderKey")
    ELSE None

RECURSIVE parse_internal_r(_, _, _)
RECURSIVE parse_int_loop(_, _, _)
RECURSIVE parse_len_loop(_, _, _)
RECURSIVE parse_list_loop(_, _, _, _, _)
RECURSIVE parse_dict_loop(_, _, _, _, _, _)

\* The while loop of the integer branch: the position and value it ends
\* with, or the error it returns.  bencoded[pos] is b[pos + 1].
parse_int_loop(b, pos, val) ==
    IF pos < Len(b) /\ is_digit(b[pos + 1])
    THEN IF val = 0 /\ b[pos] = 48 THEN BErr("ParseError")
         ELSE LET v == checked_mul10_add(val, b[pos + 1] - 48)
              IN  IF v = None THEN BErr("ParseError")
                  ELSE parse_int_loop(b, pos + 1, v[1])
    ELSE [ok |-> TRUE, pos |-> pos, val |-> val]

\* The while loop of the bytestring branch (the lengths of the model stay
\* far below usize::MAX, where the checked operations fail).
parse_len_loop(b, pos, length) ==
    IF pos < Len(b) /\ is_digit(b[pos + 1])
    THEN IF length = 0 /\ b[pos] = 48 THEN BErr("ParseError")
         ELSE parse_len_loop(b, pos + 1, length * 10 + (b[pos + 1] - 48))
    ELSE [ok |-> TRUE, pos |-> pos, val |-> length]

\* The while loop of the list branch
parse_list_loop(b, allow_out_of_order, depth, pos, val) ==
    IF pos >= Len(b) THEN BErr("UnexpectedEOF")
    ELSE IF b[pos + 1] = 101 THEN BOk(<<"List", val>>, pos + 1)
    ELSE LET r == parse_internal_r(SubSeq(b, pos + 1, Len(b)),
                                   allow_out_of_order, depth + 1)
         IN  IF ~r.ok THEN r
             ELSE parse_list_loop(b, allow_out_of_order, depth, pos + r.pos,
                                  Append(val, r.item))

\* The while loop of the dictionary branch; val is the HashMap
parse_dict_loop(b, allow_out_of_order, depth, pos, val, last) ==
    IF pos >= Len(b) THEN BErr("UnexpectedEOF")
    ELSE IF b[pos + 1] = 101 THEN BOk(<<"Dictionary", val>>, pos + 1)
    ELSE LET k == parse_internal_r(SubSeq(b, pos + 1, Len(b)),
                                   allow_out_of_order, depth + 1)
             pos2 == pos + k.pos
             key == k.item[2]
             v == parse_internal_r(SubSeq(b, pos2 + 1, Len(b)),
                                   allow_out_of_order, depth + 1)
         IN  IF ~k.ok THEN k
             ELSE IF k.item[1] # "Bytestring" THEN BErr("NonBytesKey")
             ELSE IF dict_key_check(last, key, allow_out_of_order) # None
             THEN BErr(dict_key_check(last, key, allow_out_of_order)[1])
             ELSE IF ~v.ok THEN v
             ELSE IF key \in DOMAIN val THEN BErr("DuplicatedKey")
             ELSE parse_dict_loop(b, allow_out_of_order, depth,
                                  pos2 + v.pos, MapInsert(val, key, v.item),
                                  Some(key))

\* BItem::parse_internal_r: the item and the number of bytes it takes
parse_internal_r(b, allow_out_of_order, depth) ==
    IF Len(b) < 2 THEN BErr("UnexpectedEOF")
    ELSE IF b[1] = 105
    THEN LET signed == b[2] = 45
             r == parse_int_loop(b, IF signed THEN 2 ELSE 1, 0)
         IN  IF ~r.ok THEN r
             ELSE IF r.pos >= Len(b) THEN BErr("UnexpectedEOF")
             ELSE IF r.pos < 2 \/ b[r.pos + 1] # 101 THEN BErr("ParseError")
             ELSE BOk(<<"Integer", IF signed THEN -r.val ELSE r.val>>,
                      r.pos + 1)
    ELSE IF b[1] = 108
    THEN IF depth >= MAX_DEPTH THEN BErr("DepthExceeded")
         ELSE parse_list_loop(b, allow_out_of_order, depth, 1, <<>>)
    ELSE IF b[1] = 100
    THEN IF depth >= MAX_DEPTH THEN BErr("DepthExceeded")
         ELSE parse_dict_loop(b, allow_out_of_order, depth, 1, EmptyMap, None)
    ELSE IF is_digit(b[1])
    THEN LET r == parse_len_loop(b, 1, b[1] - 48)
         IN  IF ~r.ok THEN r
             ELSE IF r.pos >= Len(b) \/ b[r.pos + 1] # 58
             THEN BErr("ParseError")
             ELSE IF r.pos + 1 + r.val > Len(b) THEN BErr("UnexpectedEOF")
             ELSE BOk(<<"Bytestring",
                        SubSeq(b, r.pos + 2, r.pos + 1 + r.val)>>,
                      r.pos + 1 + r.val)
    ELSE BErr("ParseError")

\* BItem::parse_internal
parse_internal(bencoded, allow_out_of_order) ==
    LET r == parse_internal_r(bencoded, allow_out_of_order, 0)
    IN  IF ~r.ok THEN r
        ELSE IF r.pos = Len(bencoded) THEN [ok |-> TRUE, item |-> r.item]
        ELSE BErr("TrailingTokens")

\* BItem::parse
BItem_parse(bencoded) == parse_internal(bencoded, FALSE)

\* BItem::parse_raw
BItem_parse_raw(bencoded) == parse_internal(bencoded, TRUE)

\* Display for i32: the digits of the magnitude, which for i32::MIN is
\* no i32, after a '-' when negative.
i32_text(i) ==
    IF i >= 0 THEN decimal_text(i)
    ELSE LET last == (10 - (i % 10)) % 10
             rest == 0 - ((i + last) \div 10)
         IN  <<45>> \o (IF rest = 0 THEN <<>> ELSE decimal_text(rest))
                 \o <<48 + last>>

\* BItem::serialize_bytestring
serialize_bytestring(bytes) == decimal_text(Len(bytes)) \o <<58>> \o bytes

\* BItem::serialize_internal: a dictionary is written with its keys sorted
RECURSIVE serialize_internal(_)
serialize_internal(item) ==
    IF item[1] = "Integer" THEN <<105>> \o i32_text(item[2]) \o S_e
    ELSE IF item[1] = "Bytestring" THEN serialize_bytestring(item[2])
    ELSE IF item[1] = "List"
    THEN <<108>>
         \o concat([i \in 1..Len(item[2]) |-> serialize_internal(item[2][i])])
         \o S_e
    ELSE LET l == sorted_keys(DOMAIN item[2])
         IN  <<100>>
             \o concat([i \in 1..Len(l) |->
                          serialize_bytestring(l[i])
                              \o serialize_internal(item[2][l[i]])])
             \o S_e

\* BItem::serialize
BItem_serialize(item) == serialize_internal(item)

-----------------------------------------------------------------------------
(* chunker/src/lib.rs: content-defined chunking with a rolling hash.      *)
(* The reader never fails; a read gives between 1 and BUF_SIZE bytes, and *)
(* 0 bytes at the end of the stream.                                      *)

\* Size of the read buffer (4096 in the source, 8 in its tests).
BUF_SIZE == 3

\* ChunkInput
Data(slice) == <<"Data", slice>>
End == <<"End", <<>>>>

\* A u32, kept as two 16-bit halves.
U32(hi, lo) == [hi |-> hi, lo |-> lo]

\* HM = Wrapping(123456791)
HM == U32(1883, 52503)

\* x * y modulo 2^16, for x and y below 2^16
mul16(x, y) == ((x % 256) * y + (((x \div 256) * y) % 256) * 256) % 65536

\* Wrapping<u32> multiplication
wrapping_mul(a, b) ==
    LET p0 == (a.lo % 256) * b.lo
        p1 == (a.lo \div 256) * b.lo
        t == (p1 % 256) * 256 + p0
    IN  U32(((p1 \div 256) + (t \div 65536)
                + mul16(a.lo, b.hi) + mul16(a.hi, b.lo)) % 65536,
            t % 65536)

\* Wrapping<u32> addition of a number below 2^16
wrapping_add(a, n) ==
    U32((a.hi + ((a.lo + n) \div 65536)) % 65536, (a.lo + n) % 65536)

\* h.0 < (1 << nbits), for nbits in 1..31
below(h, nbits) ==
    IF nbits >= 16 THEN h.hi < 2 ^ (nbits - 16)
    ELSE h.hi = 0 /\ h.lo < 2 ^ nbits

\* [0u8; 256]
Zeroes == [b \in 0..255 |-> 0]

\* The hash's state at the start of a chunk.
Fresh(chunk_emitted) ==
    [c1 |-> 0, o1 |-> Zeroes, h |-> HM, chunk_emitted |-> chunk_emitted]

\* One byte more in the rolling hash: the new h, o1 and c1.
roll(st, c) ==
    [st EXCEPT
       !.h = IF c = st.o1[st.c1]
             THEN wrapping_add(wrapping_mul(@, HM), c + 1)
             ELSE wrapping_add(wrapping_mul(wrapping_mul(@, HM), U32(0, 2)),
                               c + 1),
       !.o1 = [@ EXCEPT ![st.c1] = c],
       !.c1 = c]

\* A scan that keeps the rolling hash, the previous byte and the context
\* table across a boundary.
RECURSIVE read_chunks_scan_keep(_, _, _, _, _, _)
read_chunks_scan_keep(st, buf, i, s, nbits, out) ==
    IF i = Len(buf)
    THEN IF s < Len(buf)
         THEN [st |-> [st EXCEPT !.chunk_emitted = TRUE],
               out |-> Append(out, Data(SubSeq(buf, s + 1, Len(buf))))]
         ELSE [st |-> st, out |-> out]
    ELSE LET rolled(r) ==
                 IF below(r.h, nbits)
                 THEN read_chunks_scan_keep(
                          [r EXCEPT !.chunk_emitted = FALSE], buf, i + 1,
                          i + 1, nbits,
                          out \o <<Data(SubSeq(buf, s + 1, i + 1)), End>>)
                 ELSE read_chunks_scan_keep(r, buf, i + 1, s, nbits, out)
         IN  rolled(roll(st, buf[i + 1]))

\* read_chunks: the for loop over buf[..len] from index i, the slice not
\* yet given to the callback starting at s; then the Data after the loop.
RECURSIVE read_chunks_scan(_, _, _, _, _, _)
read_chunks_scan(st, buf, i, s, nbits, out) ==
    IF i = Len(buf)
    THEN IF s < Len(buf)
         THEN [st |-> [st EXCEPT !.chunk_emitted = TRUE],
               out |-> Append(out, Data(SubSeq(buf, s + 1, Len(buf))))]
         ELSE [st |-> st, out |-> out]
    ELSE LET rolled(r) ==
                 IF below(r.h, nbits)
                 THEN read_chunks_scan(Fresh(FALSE), buf, i + 1, i + 1, nbits,
                          out \o <<Data(SubSeq(buf, s + 1, i + 1)), End>>)
                 ELSE read_chunks_scan(r, buf, i + 1, s, nbits, out)
         IN  rolled(roll(st, buf[i + 1]))

\* A read_chunks loop that starts the hash afresh with every buffer.
RECURSIVE read_chunks_loop_rehash(_, _, _, _, _)
read_chunks_loop_rehash(st, reads, n, nbits, out) ==
    IF n > Len(reads)
    THEN IF st.chunk_emitted THEN Append(out, End) ELSE out
    ELSE LET scanned(r) == read_chunks_loop_rehash(r.st, reads, n + 1, nbits, r.out)
         IN  scanned(read_chunks_scan(Fresh(st.chunk_emitted), reads[n], 0, 0,
                                      nbits, out))

\* read_chunks: the loop, at the n-th read of the reader
RECURSIVE read_chunks_loop(_, _, _, _, _)
read_chunks_loop(st, reads, n, nbits, out) ==
    IF n > Len(reads)
    THEN IF st.chunk_emitted THEN Append(out, End) ELSE out
    ELSE LET scanned(r) == read_chunks_loop(r.st, reads, n + 1, nbits, r.out)
         IN  scanned(read_chunks_scan(st, reads[n], 0, 0, nbits, out))

\* read_chunks: what the callback is given, in order
read_chunks(reads, nbits) ==
    read_chunks_loop(Fresh(FALSE), reads, 1, 32 - nbits, <<>>)

\* chunks: the Chunks struct (its reader is kept apart)
chunks(nbits) ==
    [nbits |-> 32 - nbits,
     buffer |-> [i \in 1..BUF_SIZE |-> 0],
     pos |-> 0,
     len |-> 0,
     c1 |-> 0,
     o1 |-> Zeroes,
     h |-> HM,
     chunk_emitted |-> FALSE]

\* Chunks::next_chunk: the while loop from pos, and the Data after it
RECURSIVE next_chunk_scan(_, _)
next_chunk_scan(self, pos) ==
    IF pos >= self.len
    THEN [self |-> [self EXCEPT !.pos = pos, !.chunk_emitted = TRUE],
          ret |-> Some(Data(SubSeq(self.buffer, self.pos + 1, self.len)))]
    ELSE LET rolled(r) ==
                 IF below(r.h, r.nbits)
                 THEN [self |-> [r EXCEPT !.chunk_emitted = TRUE,
                                          !.pos = pos + 1],
                       ret |-> Some(Data(SubSeq(r.buffer, r.pos + 1, pos + 1)))]
                 ELSE next_chunk_scan(r, pos + 1)
         IN  rolled(roll(self, self.buffer[pos + 1]))

\* self.reader.read(&mut self.buffer) when pos = len
Chunks_fill(self, data) ==
    IF self.pos = self.len
    THEN [self EXCEPT
            !.pos = 0,
            !.len = Len(data),
            !.buffer = [i \in 1..BUF_SIZE |->
                          IF i <= Len(data) THEN data[i] ELSE @[i]]]
    ELSE self

\* A next_chunk that gives no End when the stream ends.
next_chunk_no_last_end(self, data) ==
    IF self.pos = self.len /\ Len(data) = 0
    THEN [self |-> Chunks_fill(self, data), ret |-> None]
    ELSE IF below(self.h, self.nbits) /\ self.chunk_emitted
    THEN [self |-> [Chunks_fill(self, data) EXCEPT
                      !.chunk_emitted = FALSE, !.c1 = 0, !.o1 = Zeroes,
                      !.h = HM],
          ret |-> Some(End)]
    ELSE next_chunk_scan(Chunks_fill(self, data), Chunks_fill(self, data).pos)

\* A next_chunk that gives no End after a boundary inside the stream.
next_chunk_no_inner_end(self, data) ==
    IF self.pos = self.len /\ Len(data) = 0
    THEN IF self.chunk_emitted
         THEN [self |-> [Chunks_fill(self, data) EXCEPT
                           !.chunk_emitted = FALSE],
               ret |-> Some(End)]
         ELSE [self |-> Chunks_fill(self, data), ret |-> None]
    ELSE next_chunk_scan(Chunks_fill(self, data), Chunks_fill(self, data).pos)

\* Chunks::next_chunk; data is what the reader gives if it is read, the
\* empty sequence at the end of the stream.  ret is None at the end of the
\* stream, else Some(ChunkInput).
next_chunk(self, data) ==
    IF self.pos = self.len /\ Len(data) = 0
    THEN IF self.chunk_emitted
         THEN [self |-> [Chunks_fill(self, data) EXCEPT
                           !.chunk_emitted = FALSE],
               ret |-> Some(End)]
         ELSE [self |-> Chunks_fill(self, data), ret |-> None]
    ELSE IF below(self.h, self.nbits) /\ self.chunk_emitted
    THEN [self |-> [Chunks_fill(self, data) EXCEPT
                      !.chunk_emitted = FALSE, !.c1 = 0, !.o1 = Zeroes,
                      !.h = HM],
          ret |-> Some(End)]
    ELSE next_chunk_scan(Chunks_fill(self, data), Chunks_fill(self, data).pos)

\* The hard maximum of a blob of add_file: 64 KiB in the source, 16 of its
\* read buffers; one read buffer here, so that short streams reach it.
MAX_LEN == BUF_SIZE

\* An add_file loop that never splits the accumulated buffer.
RECURSIVE add_file_loop_uncapped(_, _, _, _, _)
add_file_loop_uncapped(it, reads, n, blob, out) ==
    LET after(r) ==
            IF r.ret = None THEN out
            ELSE IF r.ret[1][1] = "Data"
            THEN add_file_loop_uncapped(r.self, reads,
                     IF it.pos = it.len /\ n < Len(reads) THEN n + 1 ELSE n,
                     blob \o r.ret[1][2], out)
            ELSE add_file_loop_uncapped(r.self, reads,
                     IF it.pos = it.len /\ n < Len(reads) THEN n + 1 ELSE n,
                     <<>>, Append(out, blob))
    IN  after(next_chunk(it, IF n < Len(reads) THEN reads[n + 1] ELSE <<>>))

\* Store::add_file: the loop over what the chunker returns, the reader
\* having given n of its reads; blob is the accumulated buffer and out the
\* byte vectors handed to storage.add_blob so far, in order.
RECURSIVE add_file_loop(_, _, _, _, _)
add_file_loop(it, reads, n, blob, out) ==
    LET extended(r, b) ==
            IF Len(b) > MAX_LEN
            THEN add_file_loop(r.self, reads,
                     IF it.pos = it.len /\ n < Len(reads) THEN n + 1 ELSE n,
                     SubSeq(b, MAX_LEN + 1, Len(b)),
                     Append(out, SubSeq(b, 1, MAX_LEN)))
            ELSE add_file_loop(r.self, reads,
                     IF it.pos = it.len /\ n < Len(reads) THEN n + 1 ELSE n,
                     b, out)
        after(r) ==
            IF r.ret = None THEN out
            ELSE IF r.ret[1][1] = "Data"
            THEN extended(r, blob \o r.ret[1][2])
            ELSE add_file_loop(r.self, reads,
                     IF it.pos = it.len /\ n < Len(reads) THEN n + 1 ELSE n,
                     <<>>, Append(out, blob))
    IN  after(next_chunk(it, IF n < Len(reads) THEN reads[n + 1] ELSE <<>>))

-----------------------------------------------------------------------------
(* The store the model runs: bounds and the values operations are given *)

\* Number of distinct one-byte blob contents given to the blob storage.
NumBlobs == 1

\* Number of claims made on the model's permanode.
NumClaims == 1

\* The byte strings given to the blob storage: the empty blob, NumBlobs
\* one-byte blobs and one two-byte blob, whose truncation is another blob.
BlobContents ==
    {<<>>, <<97, 97>>} \cup {<<96 + i>> : i \in 1..NumBlobs}

BlobIDs == {Hasher_result(b) : b \in BlobContents}

B1 == Hasher_result(<<97>>)
B2 == Hasher_result(<<98>>)

\* An id that names no object of the model.
MissingID == object_id(ListData(<<PString(S_order)>>))

Digit(n) == I64(FALSE, <<n>>)

\* The files given to Store::add, as the chunks the chunker cuts them in.
FileA == << <<97>> >>
FileBA == << <<98>>, <<97>> >>

\* What add_file builds: a list of the blobs of a file's chunks.
L1 == ListData(<<PBlob(B1)>>)
L2 == ListData(<<PBlob(B2), PBlob(B1)>>)

\* What Store::add builds for a file.
F1 == DictData((S_contents :> PReference(object_id(L1))) @@
               (S_size :> PInteger(Digit(1))))

\* A list with a reference to an object that is missing and one to F1.
X1 == ListData(<<PReference(MissingID), PReference(object_id(F1))>>)

\* A well-formed permanode (its random string has HASH_SIZE bytes) and
\* the claims on it.
P1 == DictData((S_dhstore_kind :> PString(S_permanode)) @@
               (S_random :> PString([i \in 1..HASH_SIZE |-> 97])) @@
               (S_sort :> PString(S_plus_date)))

Claim(j) == DictData((S_dhstore_kind :> PString(S_claim)) @@
                     (S_node :> PReference(object_id(P1))) @@
                     (S_value :> PReference(object_id(F1))) @@
                     (S_date :> PInteger(Digit(j))))

\* The log permanode and the root configuration that create() writes; the
\* random string is the textual form of 32 random bytes.
LogData == DictData((S_type :> PString(S_set)) @@
                    (S_order :> PString(S_date)) @@
                    (S_random :> PString(ID_str([bytes |-> [i \in 1..32 |-> 0]]))))

RootA == DictData(S_log :> PReference(object_id(LogData)))

\* A root configuration that also names a tree to keep.
RootB == DictData((S_log :> PReference(object_id(LogData))) @@
                  (S_tree :> PReference(object_id(F1))))

\* The object data given to add.
ObjectUniverse == {L1, F1, X1, P1} \cup {Claim(j) : j \in 1..NumClaims}

IoOutcomes == {"ok", "open_fails", "write_fails"}

\* What the file system does over n operations in a row: all succeed, or
\* one fails (what follows a failure is never asked).
IoRuns(n) ==
    {s \in [1..n -> IoOutcomes] :
        \A i, j \in 1..n : (s[i] # "ok" /\ s[j] # "ok") => i = j}

\* Every order in which a HashSet may yield the elements of S.
Orders(S) ==
    {s \in [1..Cardinality(S) -> S] : \A i, j \in DOMAIN s : s[i] = s[j] => i = j}

-----------------------------------------------------------------------------
(* State and actions *)

Index == IndexOf(objects, backlinks, claims, permanodes)

IndexState == [ix |-> Index, disk |-> disk]

\* A panic ends the process: nothing runs after it.
Panicked == ret.panic

\* MemoryIndex::open on a store that holds the log permanode and a root
\* configuration: both are loaded, the root dict names the log.
OpenedIndex(rootData) ==
    LET first == insert_object_in_index(
                     IndexOf(EmptyMap, EmptyMap, EmptyMap, EmptyMap),
                     index_hash_object(LogData), <<>>).ix
    IN  insert_object_in_index(first, index_hash_object(rootData), <<>>).ix

CodecIdle == cin = None /\ cout = None

ChunkerIdle ==
    /\ stream = None
    /\ emitted = None
    /\ iter = None
    /\ yielded = <<>>

VerifyIdle ==
    /\ blobdir = None
    /\ listing = None
    /\ logged = None
    /\ walking = None

\* The target of an open store: its directories and its root file.
PathOf(rootId) ==
    /\ store_path = Path("dir", {"blobs", "objects", "root"})
    /\ rootfile = Some(RootText(rootId))
    /\ objdir = None

\* The record of a call: its name, argument and result, and the result of
\* the call before it when this call repeats it.
Returned(name, a, r) ==
    /\ op' = name
    /\ arg' = a
    /\ ret' = r
    /\ before' = IF op = name /\ arg = a THEN Some(ret) ELSE None

\* An open store, but for its blobs.
StoreOpened ==
    /\ op = "open"
    /\ arg = None
    /\ ret = OkUnit
    /\ before = None
    /\ \E rootData \in {RootA, RootB} :
       \E opened \in {OpenedIndex(rootData)} :
          /\ root = object_id(rootData)
          /\ PathOf(object_id(rootData))
          /\ objects = opened.objects
          /\ backlinks = opened.backlinks
          /\ claims = opened.claims
          /\ permanodes = opened.permanodes
          /\ disk = (object_id(LogData) :> "complete") @@
                    (object_id(rootData) :> "complete")
    /\ log = Some(object_id(LogData))
    /\ tmpfile = None

StoreInit == StoreOpened /\ blobs = EmptyMap

Init == StoreInit /\ CodecIdle /\ ChunkerIdle /\ VerifyIdle

SetIndex(ix) ==
    /\ objects' = ix.objects
    /\ backlinks' = ix.backlinks
    /\ claims' = ix.claims
    /\ permanodes' = ix.permanodes

\* ObjectIndex::add
IndexAdd ==
    /\ ~Panicked
    /\ \E data \in ObjectUniverse, io \in IoOutcomes :
       \E order \in IF object_id(data) \in DOMAIN claims
                    THEN Orders(claims[object_id(data)]) ELSE {<<>>} :
          \E r \in {MemoryIndex_add(IndexState, data, io, order)} :
              /\ SetIndex(r.ix)
              /\ disk' = r.disk
              /\ Returned("add", Some(data), r.ret)
    /\ UNCHANGED <<root, log, blobs, tmpfile, cin, cout, chunkVars, pathVars, verifyVars>>

\* ObjectIndex::collect_garbage
IndexCollectGarbage ==
    /\ ~Panicked
    /\ \E r \in {MemoryIndex_collect_garbage(IndexState, root)} :
           /\ SetIndex(r.ix)
           /\ disk' = r.disk
           /\ Returned("index_collect_garbage", None, r.ret)
    /\ UNCHANGED <<root, log, blobs, tmpfile, cin, cout, chunkVars, pathVars, verifyVars>>

indexOnly == <<objects, backlinks, claims, permanodes, root, log, disk>>

\* BlobStorage::add_blob
BlobAdd ==
    /\ ~Panicked
    /\ \E blob \in BlobContents, io \in IoOutcomes, cut \in 0..1 :
          LET r == add_blob(blobs, blob, io, cut)
          IN  /\ blobs' = r.blobs
              /\ Returned("add_blob", Some(blob), r.ret)
    /\ UNCHANGED <<indexOnly, tmpfile, cin, cout, chunkVars, pathVars, verifyVars>>

\* BlobStorage::add_known_blob, called with the digest of the blob
BlobAddKnown ==
    /\ ~Panicked
    /\ \E blob \in BlobContents, io \in IoOutcomes, cut \in 0..1 :
          LET r == add_known_blob(blobs, Hasher_result(blob), blob, io, cut)
          IN  /\ blobs' = r.blobs
              /\ Returned("add_known_blob", Some(blob), r.ret)
    /\ UNCHANGED <<indexOnly, tmpfile, cin, cout, chunkVars, pathVars, verifyVars>>

\* FileBlobStorage::copy_blob
BlobCopy ==
    /\ ~Panicked
    /\ \E blob \in BlobContents,
          io \in {"ok", "open_fails", "write_fails", "mkdir_fails",
                  "rename_fails"} :
          LET r == copy_blob(blobs, blob, io)
          IN  /\ blobs' = r.blobs
              /\ tmpfile' = r.tmpfile
              /\ Returned("copy_blob", Some(blob), r.ret)
    /\ UNCHANGED <<indexOnly, cin, cout, chunkVars, pathVars, verifyVars>>

\* BlobStorage::delete_blob
BlobDelete ==
    /\ ~Panicked
    /\ \E id \in BlobIDs, io \in {"ok", "remove_fails"} :
          LET r == delete_blob(blobs, id, io)
          IN  /\ blobs' = r.blobs
              /\ Returned("delete_blob", Some(id), r.ret)
    /\ UNCHANGED <<indexOnly, tmpfile, cin, cout, chunkVars, pathVars, verifyVars>>

\* EnumerableBlobStorage::collect_garbage
BlobCollectGarbage ==
    /\ ~Panicked
    /\ \E alive \in SUBSET BlobIDs :
       \E done \in SUBSET blobs_to_delete(blobs, alive) :
          LET r == blob_collect_garbage(blobs, alive, done)
          IN  /\ blobs' = r.blobs
              /\ Returned("blob_collect_garbage", Some(alive), r.ret)
    /\ UNCHANGED <<indexOnly, tmpfile, cin, cout, chunkVars, pathVars, verifyVars>>

\* Store::add_blob: the reader is read to its end (which may fail), then
\* the blob is added.
StoreAddBlob ==
    /\ ~Panicked
    /\ \E blob \in {<<97>>, <<98>>},
          io \in IoOutcomes \cup {"read_fails"} :
          LET r == IF io = "read_fails" THEN [blobs |-> blobs, ret |-> Err]
                   ELSE add_blob(blobs, blob, io, 0)
          IN  /\ blobs' = r.blobs
              /\ Returned("store_add_blob", Some(blob), r.ret)
    /\ UNCHANGED <<indexOnly, tmpfile, cin, cout, chunkVars, pathVars, verifyVars>>

\* Store::add on a regular file
StoreAdd ==
    /\ ~Panicked
    /\ \E contents \in {FileA, FileBA}, read \in {"ok", "read_fails"} :
       \E ios \in IoRuns(Len(contents) + 2) :
          \E r \in {Store_add(IndexState, blobs, contents, read, ios)} :
              /\ SetIndex(r.ix)
              /\ disk' = r.disk
              /\ blobs' = r.blobs
              /\ Returned("store_add", Some(contents), r.ret)
    /\ UNCHANGED <<root, log, tmpfile, cin, cout, chunkVars, pathVars, verifyVars>>

\* Store::collect_garbage
StoreCollectGarbage ==
    /\ ~Panicked
    /\ \E done \in SUBSET blobs_to_delete(blobs,
                              walk(objects, root, TRUE).live_blobs) :
          \E r \in {Store_collect_garbage(IndexState, blobs, root, done)} :
              /\ SetIndex(r.ix)
              /\ disk' = r.disk
              /\ blobs' = r.blobs
              /\ Returned("store_collect_garbage", None, r.ret)
    /\ UNCHANGED <<root, log, tmpfile, cin, cout, chunkVars, pathVars, verifyVars>>

\* The store as its facade drives it.
Next == StoreAdd \/ StoreAddBlob \/ StoreCollectGarbage

Spec == Init /\ [][Next]_vars

\* The object index alone.
NextIndex == IndexAdd \/ IndexCollectGarbage

SpecIndex == Init /\ [][NextIndex]_vars

\* The blob storage alone.
NextBlobs ==
    BlobAdd \/ BlobAddKnown \/ BlobCopy \/ BlobDelete \/ BlobCollectGarbage

SpecBlobs == Init /\ [][NextBlobs]_vars

-----------------------------------------------------------------------------
(* The codecs on their own: what they are given, and what they make of it *)

\* Largest number of properties of an object given to the object codec.
MaxLen == 2

\* Largest number of tokens of a byte string given to the decoders.
MaxTokens == 3

\* Largest number of keys of a dictionary given to the decoders.
MaxPairs == 3

\* All sequences over S of length at most n.
Seqs(S, n) == UNION {[1..k -> S] : k \in 0..n}

\* Two ids: 32 zero bytes, and "abcdefghijklmnopqrstuvwxyz123456".
ID0 == [bytes |-> [i \in 1..HASH_SIZE |-> 0]]
ID1 == [bytes |-> <<97, 98, 99, 100, 101, 102, 103, 104, 105, 106, 107, 108, 109, 110, 111, 112, 113, 114, 115, 116, 117, 118, 119, 120, 121, 122, 49, 50, 51, 52, 53, 54>>]

\* i64::MIN
I64_MIN == I64(TRUE, <<9, 2, 2, 3, 3, 7, 2, 0, 3, 6, 8, 5, 4, 7, 7, 5, 8, 0, 8>>)

\* The properties given to the object codec: the empty string, "a", the
\* two bytes of U+00E9; 0, 5, -4, i64::MAX, i64::MIN; a reference; a blob.
PropertyInputs ==
    {PString(<<>>), PString(<<97>>), PString(<<195, 169>>),
     PInteger(Digit(0)), PInteger(Digit(5)), PInteger(I64(TRUE, <<4>>)),
     PInteger(I64(FALSE, I64_MAX)), PInteger(I64_MIN),
     PReference(ID0), PBlob(ID1)}

\* The dictionary keys given to the codecs: "a", "b", "aa".
KeyInputs == {<<97>>, <<98>>, <<97, 97>>}

\* The object data given to the object codec.
DataInputs ==
    {ListData(l) : l \in Seqs(PropertyInputs, MaxLen)}
        \cup {DictData(d) :
                d \in UNION {[K -> PropertyInputs] :
                               K \in {J \in SUBSET KeyInputs :
                                         Cardinality(J) <= MaxLen}}}

\* The tokens byte strings are made of: l d e i5e i05e i-4e ie 1:a 01:a 0:
\* i-0e i-e
TokenInputs ==
    {<<108>>, <<100>>, <<101>>, <<105, 53, 101>>,
     <<105, 48, 53, 101>>, <<105, 45, 52, 101>>, <<105, 101>>,
     <<49, 58, 97>>, <<48, 49, 58, 97>>, <<48, 58>>,
     <<105, 45, 48, 101>>, <<105, 45, 101>>}

\* A dictionary written by hand with its keys in the order given, each
\* with the value i1e; on its own, inside a list, or as the value of the
\* key "k" of another dictionary.
WrapInputs == {"top", "list", "value"}

PairsBytes(keys, wrap) ==
    LET dict == <<100>>
                \o concat([i \in 1..Len(keys) |->
                             decimal_text(Len(keys[i])) \o <<58>> \o keys[i]
                                 \o <<105, 49, 101>>])
                \o <<101>>
    IN  IF wrap = "top" THEN dict
        ELSE IF wrap = "list" THEN <<108>> \o dict \o <<101>>
        ELSE <<100, 49, 58, 107>> \o dict \o <<101>>

\* n containers opened one in the other: lists, or dictionaries each the
\* value of the key "k" of the one around it; with the n `e` that close
\* them, or cut after the last one is opened.
NestedBytes(n, shape, closed) ==
    (IF shape = "list" THEN [i \in 1..n |-> 108]
     ELSE concat([i \in 1..(n - 1) |-> <<100, 49, 58, 107>>]) \o <<100>>)
        \o (IF closed THEN [i \in 1..n |-> 101] ELSE <<>>)

\* The numbers of containers nested: around MAX_DEPTH.
NestDepths == {MAX_DEPTH - 1, MAX_DEPTH, MAX_DEPTH + 1, MAX_DEPTH + 2}

\* The bytes an input stands for.
Payload(input) ==
    IF input.kind = "bytes" THEN input.v
    ELSE IF input.kind = "nested"
    THEN NestedBytes(input.v.n, input.v.shape, input.v.closed)
    ELSE PairsBytes(input.v.keys, input.v.wrap)

\* The ids given to ID::str: three ids (all bytes 0, ID1, all bytes 255)
\* with one byte replaced; and the strings given to ID::from_str: the text
\* of two ids with one character replaced, a text that is one character
\* short, one that is one character long, and the empty string.
IDF == [bytes |-> [i \in 1..HASH_SIZE |-> 255]]

ByteInputs == {0, 1, 63, 64, 127, 128, 200, 255}

IdInputs ==
    {[bytes |-> [base.bytes EXCEPT ![p] = v]] :
        base \in {ID0, ID1, IDF}, p \in 1..HASH_SIZE, v \in ByteInputs}

\* A D P Q z 9 - _ + / = space NUL DEL and two bytes that are not ASCII
CharInputs ==
    {65, 68, 80, 81, 122, 57, 45, 95, 43, 47, 61, 32, 0, 127, 128, 255}

TextInputs ==
    {[ID_str(base) EXCEPT ![p] = c] :
        base \in {ID0, ID1}, p \in 1..44, c \in CharInputs}
        \cup {SubSeq(ID_str(ID1), 1, 43), ID_str(ID1) \o <<65>>, <<>>}

\* i32::MIN
I32_MIN == (0 - I32_MAX) - 1

\* The BItem values given to serialize: integers at the ends of i32 and
\* between, alone, in a list and in a dictionary.
IntInputs == {0, 12, -4, I32_MAX, I32_MAX - 1, 0 - I32_MAX, I32_MIN}

ItemInputs ==
    {<<"Integer", n>> : n \in IntInputs}
        \cup {<<"List", <<<<"Integer", n>>, <<"Integer", m>>>>>> :
                 n, m \in {I32_MAX, I32_MIN, 12}}
        \cup {<<"Dictionary", (<<97>> :> <<"Integer", n>>)>> :
                 n \in IntInputs}

\* Encoded integers at and past the ends of i32: 2147483647, 2147483648,
\* 2147483650, 4294967296, 10000000000, and the same after a '-'.
IntTexts ==
    {sign \o digits :
        sign \in {<<>>, <<45>>},
        digits \in {<<50, 49, 52, 55, 52, 56, 51, 54, 52, 55>>,
                    <<50, 49, 52, 55, 52, 56, 51, 54, 52, 56>>,
                    <<50, 49, 52, 55, 52, 56, 51, 54, 53, 48>>,
                    <<52, 50, 57, 52, 57, 54, 55, 50, 57, 54>>,
                    <<49, 48, 48, 48, 48, 48, 48, 48, 48, 48, 48>>}}

\* No store is open while the codecs are exercised.
NoStore ==
    /\ op = "none"
    /\ arg = None
    /\ ret = OkUnit
    /\ before = None
    /\ objects = EmptyMap
    /\ backlinks = EmptyMap
    /\ claims = EmptyMap
    /\ permanodes = EmptyMap
    /\ root = MissingID
    /\ log = None
    /\ disk = EmptyMap
    /\ store_path = Path("absent", {})
    /\ rootfile = None
    /\ objdir = None
    /\ blobs = EmptyMap
    /\ tmpfile = None

CodecInit ==
    /\ NoStore
    /\ ChunkerIdle
    /\ VerifyIdle
    /\ cout = None
    /\ \/ \E data \in DataInputs : cin = Some([kind |-> "data", v |-> data])
       \/ \E ts \in Seqs(TokenInputs, MaxTokens) :
             cin = Some([kind |-> "bytes", v |-> concat(ts)])
       \/ \E keys \in Seqs(KeyInputs, MaxPairs), wrap \in WrapInputs :
             cin = Some([kind |-> "pairs",
                         v |-> [keys |-> keys, wrap |-> wrap]])
       \/ \E n \in NestDepths, shape \in {"list", "dict"}, closed \in BOOLEAN :
             cin = Some([kind |-> "nested",
                         v |-> [n |-> n, shape |-> shape, closed |-> closed]])
       \/ \E item \in ItemInputs : cin = Some([kind |-> "item", v |-> item])
       \/ \E text \in IntTexts :
             cin = Some([kind |-> "bytes", v |-> <<105>> \o text \o <<101>>])
       \/ \E id \in IdInputs : cin = Some([kind |-> "id", v |-> id])
       \/ \E text \in TextInputs : cin = Some([kind |-> "text", v |-> text])

\* hash_object, serialize, then deserialize what was written
CodecRoundTrip ==
    /\ cout = None
    /\ cin[1].kind = "data"
    /\ \E debug \in BOOLEAN :
          LET object == hash_object(cin[1].v)
              enc == serialize(object, debug)
          IN  cout' = Some([by |-> "roundtrip", object |-> object,
                            enc |-> enc,
                            dec |-> IF enc.ok THEN deserialize(enc.bytes)
                                    ELSE UnexpectedEof])
    /\ UNCHANGED <<storeVars, cin, chunkVars, pathVars, verifyVars>>

\* deserialize of an object file whose data are the bytes given
CodecDeserialize ==
    /\ cout = None
    /\ cin[1].kind \in {"bytes", "pairs", "nested"}
    /\ cout' = Some([by |-> "deserialize",
                     r |-> deserialize(S_header \o Payload(cin[1]) \o S_e)])
    /\ UNCHANGED <<storeVars, cin, chunkVars, pathVars, verifyVars>>

\* BItem::parse
BencodeParse ==
    /\ cout = None
    /\ cin[1].kind \in {"bytes", "pairs", "nested"}
    /\ cout' = Some([by |-> "parse", r |-> BItem_parse(Payload(cin[1]))])
    /\ UNCHANGED <<storeVars, cin, chunkVars, pathVars, verifyVars>>

\* BItem::parse_raw
BencodeParseRaw ==
    /\ cout = None
    /\ cin[1].kind \in {"bytes", "pairs", "nested"}
    /\ cout' = Some([by |-> "parse_raw",
                     r |-> BItem_parse_raw(Payload(cin[1]))])
    /\ UNCHANGED <<storeVars, cin, chunkVars, pathVars, verifyVars>>

\* BItem::parse_raw, then BItem::serialize of what it returned
BencodeReencode ==
    /\ cout = None
    /\ cin[1].kind \in {"bytes", "pairs", "nested"}
    /\ LET r == BItem_parse_raw(Payload(cin[1]))
       IN  /\ r.ok
           /\ cout' = Some([by |-> "reencode", item |-> r.item,
                            bytes |-> BItem_serialize(r.item)])
    /\ UNCHANGED <<storeVars, cin, chunkVars, pathVars, verifyVars>>

\* BItem::serialize, then BItem::parse of what it wrote
BencodeRoundTrip ==
    /\ cout = None
    /\ cin[1].kind = "item"
    /\ \E bytes \in {BItem_serialize(cin[1].v)} :
          cout' = Some([by |-> "item_roundtrip", bytes |-> bytes,
                        r |-> BItem_parse(bytes)])
    /\ UNCHANGED <<storeVars, cin, chunkVars, pathVars, verifyVars>>

\* ID::str, then ID::from_str of the text
IdStr ==
    /\ cout = None
    /\ cin[1].kind = "id"
    /\ \E text \in {ID_str(cin[1].v)} :
          cout' = Some([by |-> "str", text |-> text,
                        back |-> ID_from_str(text)])
    /\ UNCHANGED <<storeVars, cin, chunkVars, pathVars, verifyVars>>

\* ID::from_str, then ID::str of the id when there is one
IdFromStr ==
    /\ cout = None
    /\ cin[1].kind = "text"
    /\ \E r \in {ID_from_str(cin[1].v)} :
          cout' = Some([by |-> "from_str", r |-> r,
                        again |-> IF r = None THEN None
                                  ELSE Some(ID_str(r[1]))])
    /\ UNCHANGED <<storeVars, cin, chunkVars, pathVars, verifyVars>>

NextCodec ==
    \/ IdStr
    \/ IdFromStr
    \/ CodecRoundTrip
    \/ CodecDeserialize
    \/ BencodeParse
    \/ BencodeParseRaw
    \/ BencodeReencode
    \/ BencodeRoundTrip

SpecCodec == CodecInit /\ [][NextCodec]_vars

-----------------------------------------------------------------------------
(* The chunker, run on every short stream under every way of reading it *)

\* Longest stream given to the chunker.
MaxStream == 4

\* The bytes of the streams, and the nbits the chunker is given.
StreamBytes == {0, 97, 255}

NbitsInputs == {1, 2}

\* The ways to cut n bytes into reads of 1 to BUF_SIZE bytes: the sets of
\* the offsets at which a read ends.
Cuts(n) ==
    {c \in SUBSET (1..n) :
        /\ n > 0 => n \in c
        /\ \A e \in c : \E b \in (c \cup {0}) : b < e /\ e - b <= BUF_SIZE
                                                /\ \A x \in c : ~(b < x /\ x < e)}

\* The reads of the bytes that end at the offsets of cut.
Reads(bytes, cut) ==
    LET end(j) == CHOOSE e \in cut : Cardinality({x \in cut : x < e}) = j - 1
        start(j) == IF j = 1 THEN 0 ELSE end(j - 1)
    IN  [j \in 1..Cardinality(cut) |-> SubSeq(bytes, start(j) + 1, end(j))]

Deliveries(bytes) == {Reads(bytes, cut) : cut \in Cuts(Len(bytes))}

ChunkerInit ==
    /\ NoStore
    /\ CodecIdle
    /\ \E bytes \in Seqs(StreamBytes, MaxStream), nbits \in NbitsInputs :
       \E reads \in Deliveries(bytes) :
          /\ stream = [bytes |-> bytes, reads |-> reads, nbits |-> nbits]
          /\ iter = [chunks |-> chunks(nbits), nread |-> 0]
    /\ emitted = None
    /\ yielded = <<>>
    /\ VerifyIdle

\* read_chunks on a reader of the stream
ReadChunks ==
    /\ emitted = None
    /\ emitted' = Some(read_chunks(stream.reads, stream.nbits))
    /\ UNCHANGED <<storeVars, codecVars, pathVars, verifyVars, stream, iter,
                   yielded>>

\* What the iterator's reader gives at its next read.
NextRead ==
    IF iter.nread < Len(stream.reads) THEN stream.reads[iter.nread + 1]
    ELSE <<>>

\* One call of Chunks::next_chunk on another reader of the stream; there
\* are calls until the end of the stream was returned twice.
NextChunk ==
    /\ Len(SelectSeq(yielded, LAMBDA y : y = None)) < 2
    /\ \E r \in {next_chunk(iter.chunks, NextRead)} :
          /\ iter' = [chunks |-> r.self,
                      nread |-> IF iter.chunks.pos = iter.chunks.len
                                   /\ iter.nread < Len(stream.reads)
                                THEN iter.nread + 1 ELSE iter.nread]
          /\ yielded' = Append(yielded, r.ret)
    /\ UNCHANGED <<storeVars, codecVars, pathVars, verifyVars, stream,
                   emitted>>

NextChunker == ReadChunks \/ NextChunk

SpecChunker == ChunkerInit /\ [][NextChunker]_vars

-----------------------------------------------------------------------------
(* Store::add_file on an open store, given a reader of the stream *)

AddFileInit ==
    /\ StoreInit
    /\ CodecIdle
    /\ \E bytes \in Seqs(StreamBytes, MaxStream), nbits \in NbitsInputs :
       \E reads \in Deliveries(bytes) :
          /\ stream = [bytes |-> bytes, reads |-> reads, nbits |-> nbits]
          /\ iter = [chunks |-> chunks(nbits), nread |-> 0]
    /\ emitted = None
    /\ yielded = <<>>
    /\ VerifyIdle

\* Store::add_file: the chunker (given nbits = 13 in the source, the
\* stream's nbits here) cuts the stream, each cut is added as a blob, and
\* the list of the blobs is added to the index.
StoreAddFile ==
    /\ op = "open"
    /\ \E cut \in {add_file_loop(iter.chunks, stream.reads, 0, <<>>, <<>>)},
          read \in {"ok", "read_fails"} :
       \E ios \in IoRuns(Len(cut) + 1) :
          \E r \in {Store_add_file(IndexState, blobs, cut, read, ios)} :
              /\ SetIndex(r.ix)
              /\ disk' = r.disk
              /\ blobs' = r.blobs
              /\ Returned("store_add_file", Some(stream.bytes), r.ret)
    /\ UNCHANGED <<root, log, tmpfile, codecVars, chunkVars, pathVars, verifyVars>>

SpecAddFile == AddFileInit /\ [][StoreAddFile]_vars

-----------------------------------------------------------------------------
(* create and open on a path that is absent, an empty directory, a       *)
(* directory with something in it, or a file                             *)

CreateInit ==
    /\ op = "none"
    /\ arg = None
    /\ ret = OkUnit
    /\ before = None
    /\ objects = EmptyMap
    /\ backlinks = EmptyMap
    /\ claims = EmptyMap
    /\ permanodes = EmptyMap
    /\ root = MissingID
    /\ log = None
    /\ disk = EmptyMap
    /\ blobs = EmptyMap
    /\ tmpfile = None
    /\ store_path \in {Path("absent", {}), Path("dir", {}),
                       Path("dir", {"other"}), Path("file", {})}
    /\ rootfile = None
    /\ objdir = None
    /\ CodecIdle
    /\ ChunkerIdle
    /\ VerifyIdle

\* create; the permanode's random bytes are those of ID0 or of ID1
Create ==
    /\ ~Panicked
    /\ \E random \in {ID0, ID1}, ios \in IoRuns(7) :
       \E r \in {create(store_path, rootfile, disk, random, ios)} :
          /\ store_path' = r.path
          /\ rootfile' = r.rootfile
          /\ objdir' = objdir
          /\ disk' = r.disk
          /\ Returned("create", Some(store_path), r.ret)
    /\ UNCHANGED <<objects, backlinks, claims, permanodes, root, log, blobs,
                   tmpfile, codecVars, chunkVars, verifyVars>>

\* open; the index, its root and its log are those of the Store returned
Open ==
    /\ ~Panicked
    /\ \E io \in {"ok", "fails"}, order \in Orders(DOMAIN disk) :
       \E r \in {open(store_path, rootfile, disk, order, io)} :
          /\ IF r.ret.ok
             THEN SetIndex(r.ix) /\ root' = r.root /\ log' = r.log
             ELSE UNCHANGED <<objects, backlinks, claims, permanodes, root,
                              log>>
          /\ Returned("open", Some(io), r.ret)
    /\ UNCHANGED <<disk, blobs, tmpfile, codecVars, chunkVars, pathVars, verifyVars>>

NextCreate == Create \/ Open

SpecCreate == CreateInit /\ [][NextCreate]_vars

-----------------------------------------------------------------------------
(* verify and list_blobs on an open store whose blobs directory holds     *)
(* blobs, some with the wrong content, and entries that name no blob      *)

\* Most first-level entries of a blobs directory.
MaxDirs == 2

\* The files of a first-level directory.
FileRuns ==
    {<<>>,
     << <<"blob", B1>> >>,
     << <<"blob", B2>> >>,
     << <<"long", <<>>>> >>,
     << <<"not_hex", <<>>>> >>,
     << <<"not_unicode", <<>>>> >>,
     << <<"blob", B1>>, <<"long", <<>>>> >>,
     << <<"long", <<>>>>, <<"blob", B1>> >>,
     << <<"not_hex", <<>>>>, <<"blob", B2>> >>,
     << <<"blob", B1>>, <<"blob", B2>> >>}

FirstInputs ==
    {DirEntry("hex", TRUE, f) : f \in FileRuns}
        \cup {DirEntry("two", TRUE, << <<"blob", B1>> >>),
              DirEntry("long", TRUE, << <<"blob", B2>> >>),
              DirEntry("not_unicode", TRUE, <<>>),
              DirEntry("hex", FALSE, <<>>)}

\* The places of a directory where a file is a stored blob: <<i, j>> for
\* the j-th file of the i-th entry.
BlobPlaces(tree) ==
    {p \in (1..Len(tree)) \X (1..2) :
        /\ tree[p[1]].name = "hex"
        /\ tree[p[1]].dir
        /\ p[2] <= Len(tree[p[1]].files)
        /\ tree[p[1]].files[p[2]][1] = "blob"}

StoredIDs(tree) == {tree[p[1]].files[p[2]][2] : p \in BlobPlaces(tree)}

\* The directories: no blob is stored at two places.
BlobDirs ==
    {tree \in Seqs(FirstInputs, MaxDirs) :
        Cardinality(BlobPlaces(tree)) = Cardinality(StoredIDs(tree))}

\* The blob files of the directory, those of corrupt with a byte too many.
BlobFiles(tree, corrupt) ==
    [id \in StoredIDs(tree) |->
        IF id \in corrupt THEN id[2] \o <<120>> ELSE id[2]]

VerifyInit ==
    /\ StoreOpened
    /\ CodecIdle
    /\ ChunkerIdle
    /\ blobdir \in BlobDirs
    /\ \E corrupt \in SUBSET StoredIDs(blobdir) :
          blobs = BlobFiles(blobdir, corrupt)
    /\ listing = [it |-> list_blobs(blobdir), items |-> <<>>]
    /\ logged = None
    /\ walking = None

\* Store::verify
StoreVerify ==
    /\ ~Panicked
    /\ \E io \in {"ok", "list_fails"} :
       \E r \in {Store_verify(objects, root, blobs, blobdir, io)} :
          /\ objects' = r.objects
          /\ logged' = Some(r.log)
          /\ Returned("verify", Some(io), r.ret)
    /\ UNCHANGED <<backlinks, claims, permanodes, root, log, disk, blobs,
                   tmpfile, codecVars, chunkVars, pathVars, blobdir, listing,
                   walking>>

\* One call of next on the iterator of list_blobs, until it ended
BlobListNext ==
    /\ IF listing.items = <<>> THEN TRUE
       ELSE listing.items[Len(listing.items)] # None
    /\ \E r \in {FileBlobIterator_next(listing.it)} :
          listing' = [it |-> r.self, items |-> Append(listing.items, r.item)]
    /\ UNCHANGED <<storeVars, codecVars, chunkVars, pathVars, blobdir, logged,
                   walking>>

NextVerify == StoreVerify \/ BlobListNext

SpecVerify == VerifyInit /\ [][NextVerify]_vars

-----------------------------------------------------------------------------
(* Properties of the object index and of the blob storage *)

\* The ids an object names with a Reference, and with a Blob.
ReferencesOf(data) ==
    {data[2][k][2] : k \in {j \in DOMAIN data[2] : data[2][j][1] = "Reference"}}

BlobsOf(data) ==
    {data[2][k][2] : k \in {j \in DOMAIN data[2] : data[2][j][1] = "Blob"}}

\* The least set of present objects that holds the ids of S and every
\* present object one of its members refers to.
RECURSIVE ReachableFrom(_, _)
ReachableFrom(objs, S) ==
    LET T == S \cup {r \in UNION {ReferencesOf(objs[id]) : id \in S} :
                        r \in DOMAIN objs}
    IN  IF T = S THEN S ELSE ReachableFrom(objs, T)

Reachable(objs, rootId) == ReachableFrom(objs, {rootId} \cap DOMAIN objs)

\* The blobs the objects of an index use.
UsedBlobs(objs) == UNION {BlobsOf(objs[id]) : id \in DOMAIN objs}

\* C1: when the index's collect_garbage returns, the objects in memory are
\* exactly those that were reachable from the root by References through
\* present objects: every reachable object is kept, every other is removed.
C1_GcKeepsExactlyReachable ==
    [][op' = "index_collect_garbage"
          => DOMAIN objects' = Reachable(objects, root)]_vars

\* A collection has removed a list that was added (its file is on disk) and
\* kept a file object that the root names, together with its contents.
C1_Witness ==
    /\ op = "index_collect_garbage"
    /\ object_id(X1) \in DOMAIN disk
    /\ object_id(X1) \notin DOMAIN objects
    /\ object_id(F1) \in DOMAIN objects
    /\ object_id(L1) \in DOMAIN objects

\* C2: when collect_garbage returns, the file of every object it removed
\* from memory is gone from the objects directory.
C2_GcDeletesFiles ==
    [][op' = "index_collect_garbage"
          => \A id \in (DOMAIN objects) \ (DOMAIN objects') :
                id \notin DOMAIN disk']_vars

\* C3: a sweep that returns Ok leaves exactly the blobs that were stored
\* and are in `alive`.
C3_SweepKeepsExactlyAlive ==
    [][(op' = "blob_collect_garbage" /\ ret'.ok)
          => DOMAIN blobs' = (DOMAIN blobs) \cap arg'[1]]_vars

\* C4: when Store::collect_garbage returns, every stored blob that an
\* object still in the index uses is still stored with the same bytes, and
\* no blob that was removed is used by an object still in the index.
C4_StoreGcKeepsUsedBlobs ==
    [][op' = "store_collect_garbage"
          => /\ \A id \in UsedBlobs(objects') \cap DOMAIN blobs :
                   id \in DOMAIN blobs' /\ blobs'[id] = blobs[id]
             /\ \A id \in (DOMAIN blobs) \ (DOMAIN blobs') :
                   id \notin UsedBlobs(objects')]_vars

\* C5: when add is called a second time in a row with the same data, a
\* first call that returned a digest makes the second return the same
\* digest and leave objects, backlinks, claims, permanodes and the disk as
\* they were; and the two calls write at most one file: no call writes more
\* than one, and the second writes none when the object's file exists.
C5_AddTwice ==
    [][(op' = "add" /\ before' # None)
          => /\ before'[1].ok
                   => /\ ret' = before'[1]
                      /\ UNCHANGED <<objects, backlinks, claims, permanodes,
                                     disk>>
             /\ object_id(arg'[1]) \in DOMAIN disk => disk' = disk
             /\ Cardinality((DOMAIN disk') \ (DOMAIN disk)) <= 1]_vars

\* The same data was added twice in a row and both calls returned its
\* digest.
C5_Witness ==
    /\ op = "add"
    /\ before # None
    /\ before[1].ok
    /\ ret = Ok(object_id(arg[1]))
    /\ object_id(arg[1]) \in DOMAIN objects

\* Every object in memory has its complete file on disk.
IndexedObjectsHaveFiles ==
    \A id \in DOMAIN objects : id \in DOMAIN disk /\ disk[id] = "complete"

\* C6: in every state each object in memory has its file on disk, and an
\* add that returns an error leaves objects, backlinks, claims and
\* permanodes as they were.
C6_FileBeforeIndex ==
    /\ []IndexedObjectsHaveFiles
    /\ [][(op' = "add" /\ ~ret'.ok /\ ~ret'.panic)
             => UNCHANGED <<objects, backlinks, claims, permanodes>>]_vars

\* An add failed while it wrote the file: a truncated file is on disk and
\* the object is not in memory.
C6_Witness ==
    /\ op = "add"
    /\ ~ret.ok
    /\ object_id(arg[1]) \in DOMAIN disk
    /\ disk[object_id(arg[1])] = "truncated"
    /\ object_id(arg[1]) \notin DOMAIN objects

\* C7: in every state the bytes of each stored blob hash to the digest that
\* names its path.
C7_BlobsHashToPath ==
    \A id \in DOMAIN blobs : Hasher_result(blobs[id]) = id

-----------------------------------------------------------------------------
(* Properties of the codecs *)

\* a comes before b in byte order: at the first place where they differ a
\* has the smaller byte, or a is a proper prefix of b.
BytesLess(a, b) ==
    \E i \in 1..(Len(a) + 1) :
        /\ i <= Len(b) + 1
        /\ \A j \in 1..(i - 1) : a[j] = b[j]
        /\ \/ (i > Len(a) /\ i <= Len(b))
           \/ (i <= Len(a) /\ i <= Len(b) /\ a[i] < b[i])

StrictlyAscending(keys) ==
    \A i \in 1..(Len(keys) - 1) : BytesLess(keys[i], keys[i + 1])

NoTwoEqual(keys) ==
    \A i, j \in 1..Len(keys) : keys[i] = keys[j] => i = j

\* The first key that is not after the one before it (0 if none).
FirstOffence(keys) ==
    LET bad == {i \in 2..Len(keys) : ~BytesLess(keys[i - 1], keys[i])}
    IN  IF bad = {} THEN 0 ELSE CHOOSE i \in bad : \A j \in bad : i <= j

\* The entries of a Dict listed with their keys strictly ascending.
AscendingListing(d) ==
    LET keys == CHOOSE s \in Orders(DOMAIN d) : StrictlyAscending(s)
    IN  <<100>>
        \o concat([i \in 1..Len(keys) |->
                     write_str(keys[i]) \o write_property(d[keys[i]])])
        \o <<101>>

CodecRan(kind, by) ==
    /\ cin # None
    /\ cout # None
    /\ cin[1].kind = kind
    /\ cout[1].by = by

\* C8: for every object data D given, deserialize of what serialize wrote
\* for hash_object(D) succeeds with the digest and the data of
\* hash_object(D).
C8_RoundTrip ==
    CodecRan("data", "roundtrip")
        => /\ cout[1].enc.ok
           /\ cout[1].dec.ok
           /\ cout[1].dec.object.id = hash_object(cin[1].v).id
           /\ cout[1].dec.object.data = cin[1].v

\* C9: whenever deserialize accepts a byte string, hash_object of the data
\* it returns has the id it returns.
C9_AcceptsOnlyCanonical ==
    (CodecRan("bytes", "deserialize") /\ cout[1].r.ok)
        => hash_object(cout[1].r.object.data).id = cout[1].r.object.id

\* C10: the encoding of a Dict lists its entries with their keys strictly
\* ascending; a dictionary whose keys are not strictly ascending is rejected
\* by BItem::parse, with DuplicatedKey when the first key out of place
\* equals the one before it and with OutOfOrderKey otherwise, and is
\* rejected by deserialize; BItem::parse_raw never returns OutOfOrderKey,
\* accepts the keys in any order when no two are equal and returns
\* DuplicatedKey when two are equal, adjacent or not; and BItem::serialize
\* of a dictionary lists its keys strictly ascending.
C10_DictKeyOrder ==
    /\ (CodecRan("data", "roundtrip") /\ cin[1].v[1] = "Dict")
          => cout[1].enc.bytes
                = S_header \o AscendingListing(cin[1].v[2]) \o S_e
    /\ (CodecRan("pairs", "parse")
          /\ ~StrictlyAscending(cin[1].v.keys))
          => /\ ~cout[1].r.ok
             /\ cout[1].r.err =
                   IF cin[1].v.keys[FirstOffence(cin[1].v.keys)]
                         = cin[1].v.keys[FirstOffence(cin[1].v.keys) - 1]
                   THEN "DuplicatedKey" ELSE "OutOfOrderKey"
    /\ (CodecRan("pairs", "deserialize")
          /\ ~StrictlyAscending(cin[1].v.keys))
          => ~cout[1].r.ok /\ cout[1].r.err = "InvalidData"
    /\ CodecRan("pairs", "parse_raw")
          => /\ cout[1].r.ok <=> NoTwoEqual(cin[1].v.keys)
             /\ ~cout[1].r.ok => cout[1].r.err = "DuplicatedKey"
    /\ CodecRan("bytes", "parse_raw")
          => (cout[1].r.ok \/ cout[1].r.err # "OutOfOrderKey")
    /\ (CodecRan("pairs", "reencode") /\ cin[1].v.wrap = "top")
          => cout[1].bytes
                = PairsBytes(CHOOSE s \in Orders(DOMAIN cout[1].item[2]) :
                                 StrictlyAscending(s), "top")

\* parse_raw was given a dictionary with the keys a, b, a and returned
\* DuplicatedKey.
C10_Witness ==
    /\ CodecRan("pairs", "parse_raw")
    /\ cin[1].v.keys = <<<<97>>, <<98>>, <<97>>>>
    /\ ~cout[1].r.ok
    /\ cout[1].r.err = "DuplicatedKey"

\* C11: whatever BItem::parse accepts, serialize writes back byte for byte;
\* and -0, an integer with leading zeros, an integer with no digits and a
\* string length with a leading zero are each rejected with ParseError.
C11_ParseAcceptsOnlyCanonical ==
    /\ (CodecRan("bytes", "parse") /\ cout[1].r.ok)
          => BItem_serialize(cout[1].r.item) = cin[1].v
    /\ (CodecRan("bytes", "parse")
          /\ cin[1].v \in {<<105, 45, 48, 101>>, <<105, 48, 53, 101>>,
                           <<105, 101>>, <<105, 45, 101>>,
                           <<48, 49, 58, 97>>})
          => ~cout[1].r.ok /\ cout[1].r.err = "ParseError"

\* The URL-safe alphabet: A-Z a-z 0-9 - _
Alphabet == (65..90) \cup (97..122) \cup (48..57) \cup {45, 95}

\* The 6-bit value a character of the alphabet stands for.
SixBits(c) ==
    IF c \in 65..90 THEN c - 65
    ELSE IF c \in 97..122 THEN c - 71
    ELSE IF c \in 48..57 THEN c + 4
    ELSE IF c = 45 THEN 62 ELSE 63

\* The type tag of a text: the 8 bits its first two characters start with.
TypeTag(text) == SixBits(text[1]) * 4 + (SixBits(text[2]) \div 16)

WellFormedText(text) ==
    /\ Len(text) = 44
    /\ \A c \in 1..44 : text[c] \in Alphabet
    /\ TypeTag(text) = 12

\* C12: the text of an id has 44 characters of the alphabet and the type
\* tag 12, and from_str of it gives the id back; the text of an id that
\* from_str returned is the string from_str was given; and from_str
\* returns no id for a string that has not 44 characters, has a character
\* outside the alphabet, or has another type tag.
C12_IdTextRoundTrip ==
    /\ CodecRan("id", "str")
          => /\ WellFormedText(cout[1].text)
             /\ cout[1].back = Some(cin[1].v)
    /\ CodecRan("text", "from_str")
          => /\ cout[1].r # None => cout[1].again = Some(cin[1].v)
             /\ ~WellFormedText(cin[1].v) => cout[1].r = None

\* from_str returned an id for a string that is the text of neither of
\* the two ids the strings given are made from.
C12_Witness ==
    /\ CodecRan("text", "from_str")
    /\ cout[1].r # None
    /\ cin[1].v \notin {ID_str(ID0), ID_str(ID1)}

\* What the calls of next_chunk returned before the end of the stream.
Events(ys) ==
    LET some == SelectSeq(ys, LAMBDA y : y # None)
    IN  [i \in 1..Len(some) |-> some[i][1]]

\* The iteration is over: the last call returned the end of the stream.
Finished == yielded # <<>> /\ yielded[Len(yielded)] = None

\* The number of bytes in the Data events before the i-th event.
RECURSIVE BytesBefore(_, _)
BytesBefore(events, i) ==
    IF i <= 1 THEN 0
    ELSE BytesBefore(events, i - 1)
           + (IF events[i - 1][1] = "Data" THEN Len(events[i - 1][2]) ELSE 0)

\* The offsets of the stream after which there is an End event.
EndOffsets(events) ==
    {BytesBefore(events, i) : i \in {j \in 1..Len(events) : events[j] = End}}

\* The stream delivered in one read.
OneRead == IF stream.bytes = <<>> THEN <<>> ELSE <<stream.bytes>>

\* C13: however the reader delivers the stream, read_chunks and the calls
\* of next_chunk give End after the same offsets of the stream as
\* read_chunks does when the stream comes in one read.
C13_SameBoundaries ==
    \A offsets \in {EndOffsets(read_chunks(OneRead, stream.nbits))} :
        /\ emitted # None => EndOffsets(emitted[1]) = offsets
        /\ Finished => EndOffsets(Events(yielded)) = offsets

\* Both interfaces went through a stream that came in several reads and
\* has a boundary inside one of them.
C13_Witness ==
    /\ emitted # None
    /\ Finished
    /\ Len(stream.reads) > 1
    /\ \E e \in EndOffsets(emitted[1]) :
          /\ e < Len(stream.bytes)
          /\ \A cut \in 1..Len(stream.reads) :
                BytesBefore([j \in 1..Len(stream.reads) |->
                                Data(stream.reads[j])], cut + 1) # e

\* C14: on the same stream read the same way, the calls of next_chunk
\* return the events read_chunks gives its callback: the same so far while
\* the iteration goes on, and the same sequence once it is over.
C14_SameEvents ==
    emitted # None
       => /\ Len(Events(yielded)) <= Len(emitted[1])
          /\ Events(yielded) = SubSeq(emitted[1], 1, Len(Events(yielded)))
          /\ Finished => Events(yielded) = emitted[1]

\* Both interfaces went through a stream with a boundary before its end
\* and bytes after the last boundary.
C14_Witness ==
    /\ emitted # None
    /\ Finished
    /\ Len(emitted[1]) >= 4
    /\ \E e \in EndOffsets(emitted[1]) : 0 < e /\ e < Len(stream.bytes)

\* The Data slices of the events, end to end.
RECURSIVE AllData(_)
AllData(events) ==
    IF events = <<>> THEN <<>>
    ELSE (IF Head(events)[1] = "Data" THEN Head(events)[2] ELSE <<>>)
            \o AllData(Tail(events))

\* Every Data slice has bytes and no boundary before its last byte, and
\* every End comes directly after a Data.
EventsInOrder(events) ==
    \A i \in 1..Len(events) :
        IF events[i][1] = "Data"
        THEN /\ events[i][2] # <<>>
             /\ \A e \in EndOffsets(read_chunks(OneRead, stream.nbits)) :
                   ~(BytesBefore(events, i) < e
                       /\ e < BytesBefore(events, i + 1))
        ELSE i > 1 /\ events[i - 1][1] = "Data"

\* The events are those of the whole stream, with End last when the
\* stream has bytes.
EventsComplete(events) ==
    /\ AllData(events) = stream.bytes
    /\ stream.bytes # <<>>
          => events # <<>> /\ events[Len(events)] = End

\* C15: in the events of both interfaces every Data slice has bytes and no
\* boundary before its last byte, End comes only directly after Data, the
\* Data slices end to end are the stream, and End is the last event of a
\* stream that has bytes; and once next_chunk returned the end of the
\* stream it returns it at every later call.
C15_EventSequence ==
    /\ emitted # None
          => EventsInOrder(emitted[1]) /\ EventsComplete(emitted[1])
    /\ EventsInOrder(Events(yielded))
    /\ Finished => EventsComplete(Events(yielded))
    /\ \A i \in 1..Len(yielded) :
          yielded[i] = None => \A j \in i..Len(yielded) : yielded[j] = None

\* next_chunk returned the end of the stream twice, after a stream whose
\* last bytes come after a boundary and whose events have a Data that
\* ends on a boundary.
C15_Witness ==
    /\ Finished
    /\ Len(SelectSeq(yielded, LAMBDA y : y = None)) = 2
    /\ \E e \in EndOffsets(Events(yielded)) : 0 < e /\ e < Len(stream.bytes)
    /\ Len(stream.reads) > 1

\* The blobs a List object names, end to end.
RECURSIVE ListedBytes(_)
ListedBytes(l) ==
    IF l = <<>> THEN <<>>
    ELSE (IF l[1][1] = "Blob" /\ l[1][2] \in DOMAIN blobs
          THEN blobs[l[1][2]] ELSE <<>>) \o ListedBytes(Tail(l))

\* C16: when add_file succeeded, every blob of the storage has between 1
\* and MAX_LEN bytes, the object returned is a List of stored blobs that
\* end to end are the stream, and the size returned is the stream's
\* length; for an empty stream the List is empty and the size 0.
C16_AddFileCutsTheStream ==
    (op = "store_add_file" /\ ret.ok)
       => /\ \A id \in DOMAIN blobs :
                Len(blobs[id]) >= 1 /\ Len(blobs[id]) <= MAX_LEN
          /\ ret.v[1][1] \in DOMAIN objects
          /\ \E l \in {objects[ret.v[1][1]]} :
                /\ l[1] = "List"
                /\ \A i \in 1..Len(l[2]) :
                      l[2][i][1] = "Blob" /\ l[2][i][2] \in DOMAIN blobs
                /\ ListedBytes(l[2]) = stream.bytes
                /\ stream.bytes = <<>> => l[2] = <<>>
          /\ ret.v[1][2] = Len(stream.bytes)

\* add_file succeeded on a stream longer than MAX_LEN that has no boundary
\* in its first MAX_LEN bytes, so that the buffer was split.
C16_Witness ==
    /\ op = "store_add_file"
    /\ ret.ok
    /\ Len(stream.bytes) > MAX_LEN
    /\ Len(stream.reads) > 1
    /\ \A e \in EndOffsets(read_chunks(OneRead, stream.nbits)) : e > MAX_LEN

\* The target holds a store as create leaves it: the root file holds the
\* text of the id of a whole object Dict {log: Reference(L)} of the objects
\* directory, L is a whole object of it too, and open succeeds whatever
\* the order of the directory when the file system does not fail.
CreatedStore ==
    /\ store_path.kind = "dir"
    /\ {"blobs", "objects", "root"} \subseteq store_path.names
    /\ rootfile # None
    /\ rootfile[1][1] = "text"
    /\ \E c \in {rootfile[1][2]} :
          /\ c \in DOMAIN disk
          /\ disk[c] = "complete"
          /\ \E L \in DOMAIN disk :
                /\ disk[L] = "complete"
                /\ c = object_id(DictData(S_log :> PReference(L)))
    /\ \A order \in Orders(DOMAIN disk) :
          open(store_path, rootfile, disk, order, "ok").ret.ok

\* C17: when create succeeded the target holds a store that open opens
\* (the root file names the configuration {log: Reference(L)}, which is
\* under objects with L), and an open that follows it without a failure
\* of the file system succeeds; and a create on a directory that is not
\* empty or on a file fails and leaves the target as it was.
C17_CreateThenOpen ==
    /\ []((op = "create" /\ ret.ok) => CreatedStore)
    /\ [][(op = "create" /\ ret.ok /\ op' = "open" /\ arg' = Some("ok"))
             => ret'.ok]_vars
    /\ [][(op' = "create"
              /\ (store_path.kind = "file"
                    \/ (store_path.kind = "dir" /\ store_path.names # {})))
             => (~ret'.ok
                   /\ UNCHANGED <<store_path, rootfile, disk, blobs>>)]_vars

\* open succeeded on what create made, and gave an index with a log.
C17_Witness ==
    /\ op = "open"
    /\ ret.ok
    /\ arg = Some("ok")
    /\ log # None
    /\ root \in DOMAIN objects

\* The blobs of files but the one named id.
Without(files, id) == Restrict(files, (DOMAIN files) \ {id})

\* C20: delete_blob of a digest that is not stored succeeds and changes
\* nothing; delete_blob of a stored blob, when remove_file does not fail,
\* succeeds, and so does the same delete_blob after it; the first removes
\* that blob only and the second changes nothing.
C20_DeleteIdempotent ==
    /\ [](\A id \in BlobIDs :
            \E first \in {delete_blob(blobs, id, "ok")} :
            \E second \in {delete_blob(first.blobs, id, "ok")} :
               /\ first.ret.ok
               /\ first.blobs = Without(blobs, id)
               /\ second.ret.ok
               /\ second.blobs = first.blobs)
    /\ [][op' = "delete_blob"
             => /\ arg'[1] \notin DOMAIN blobs => ret'.ok /\ blobs' = blobs
                /\ ret'.ok => blobs' = Without(blobs, arg'[1])
                /\ (op = "delete_blob" /\ arg = arg' /\ ret.ok)
                      => ret'.ok /\ blobs' = blobs]_vars

\* delete_blob succeeded twice in a row on a blob that was stored, with
\* another blob in the storage.
C20_Witness ==
    /\ op = "delete_blob"
    /\ ret.ok
    /\ before # None
    /\ before[1].ok
    /\ blobs # EmptyMap
    /\ arg[1] \notin DOMAIN blobs

\* C18: Store::verify leaves the objects, back-references, claims,
\* permanodes, object files and blob files as they were, and returns
\* success whenever the blobs directory can be listed, whatever objects
\* are missing and whatever the blobs hold.
C18_VerifyChangesNothing ==
    [][op' = "verify"
         => /\ UNCHANGED <<objects, backlinks, claims, permanodes, disk,
                           blobs, blobdir>>
            /\ arg' = Some("ok") => ret'.ok]_vars

\* verify succeeded on a store whose root names a tree that is not in the
\* index and that has a blob file whose content has another hash.
C18_Witness ==
    /\ op = "verify"
    /\ ret.ok
    /\ root = object_id(RootB)
    /\ object_id(F1) \notin DOMAIN objects
    /\ \E id \in DOMAIN blobs : Hasher_result(blobs[id]) # id
    /\ \E i \in 1..Len(logged[1]) : logged[1][i][1] = "wrong_hash"

\* The entries of a blobs directory that name no blob: the first-level
\* entries that cannot be entered, and the files of the others whose path
\* is not the hexadecimal form of an id.
InvalidEntries(tree) ==
    {<<i, 0>> : i \in {k \in 1..Len(tree) :
                          tree[k].name \in {"long", "not_unicode"}
                             \/ ~tree[k].dir}}
       \cup {p \in (1..Len(tree)) \X (1..2) :
                /\ tree[p[1]].name \in {"hex", "two"}
                /\ tree[p[1]].dir
                /\ p[2] <= Len(tree[p[1]].files)
                /\ ~(tree[p[1]].name = "hex"
                       /\ tree[p[1]].files[p[2]][1] = "blob")}

\* The iterator returned the end of the listing.
Listed ==
    listing.items # <<>> /\ listing.items[Len(listing.items)] = None

\* C19: when the listing is over, list_blobs has yielded one error for
\* each entry that names no blob and, once each, every blob of the
\* directory; and a verify that could list the directory succeeded, with
\* one line logged for each of these errors and one for each blob.
C19_ListingGoesOn ==
    /\ Listed
          => \E items \in {SubSeq(listing.items, 1, Len(listing.items) - 1)} :
                /\ \A i \in 1..Len(items) : items[i] # None
                /\ Cardinality({i \in 1..Len(items) : ~items[i][1].ok})
                      = Cardinality(InvalidEntries(blobdir))
                /\ {items[i][1].v[1] : i \in {k \in 1..Len(items) :
                                                  items[k][1].ok}}
                      = DOMAIN blobs
                /\ Cardinality({i \in 1..Len(items) : items[i][1].ok})
                      = Cardinality(DOMAIN blobs)
    /\ (op = "verify" /\ arg = Some("ok"))
          => /\ ret.ok
             /\ Cardinality({i \in 1..Len(logged[1]) :
                                logged[1][i][1] = "error_listing"})
                   = Cardinality(InvalidEntries(blobdir))
             /\ \A id \in DOMAIN blobs :
                   \E i \in 1..Len(logged[1]) :
                      /\ logged[1][i][2] = id
                      /\ logged[1][i][1]
                            = IF Hasher_result(blobs[id]) = id
                              THEN "checked" ELSE "wrong_hash"

\* The listing is over, and it yielded a blob after an error; and verify
\* succeeded on the directory.
C19_Witness ==
    /\ Listed
    /\ \E i, j \in 1..(Len(listing.items) - 1) :
          i < j /\ ~listing.items[i][1].ok /\ listing.items[j][1].ok
    /\ op = "verify"
    /\ ret.ok

-----------------------------------------------------------------------------
(* MemoryIndex::open on an objects directory whose files may hold        *)
(* another object than the one their path names, or no object            *)

\* The most files in the objects directory.
MaxFiles == 2

\* Root configurations: log that is a string, that names a list, that
\* names the permanode P1.
RootLogString == DictData(S_log :> PString(S_date))
RootLogList == DictData(S_log :> PReference(object_id(L1)))
RootP == DictData(S_log :> PReference(object_id(P1)))

\* The objects a file may hold, and whose ids the paths are.
OpenObjects ==
    {LogData, P1, L1, F1, RootA, RootP, RootLogList, RootLogString}

\* The objects directories: at most MaxFiles files, each at the path of an
\* object's id, holding any object or nothing that deserializes.
ObjectDirs ==
    UNION {[S -> {Some(d) : d \in OpenObjects} \cup {None}] :
              S \in {T \in SUBSET {object_id(d) : d \in OpenObjects} :
                        Cardinality(T) <= MaxFiles}}

OpenInit ==
    /\ op = "none"
    /\ arg = None
    /\ ret = OkUnit
    /\ before = None
    /\ objects = EmptyMap
    /\ backlinks = EmptyMap
    /\ claims = EmptyMap
    /\ permanodes = EmptyMap
    /\ root \in {object_id(d) : d \in {L1, F1, RootA, RootP, RootLogList,
                                        RootLogString}}
    /\ log = None
    /\ disk = EmptyMap
    /\ blobs = EmptyMap
    /\ tmpfile = None
    /\ store_path = Path("dir", {"blobs", "objects", "root"})
    /\ rootfile = Some(RootText(root))
    /\ \E dir \in ObjectDirs : objdir = Some(dir)
    /\ CodecIdle
    /\ ChunkerIdle
    /\ VerifyIdle

\* MemoryIndex::open(path, root) on the directory, listed in any order
IndexOpen ==
    /\ ~Panicked
    /\ \E order \in Orders(DOMAIN objdir[1]) :
       \E r \in {MemoryIndex_open(objdir[1], root, order)} :
          /\ IF r.ret.ok
             THEN SetIndex(r.ix) /\ log' = r.log
             ELSE UNCHANGED <<objects, backlinks, claims, permanodes, log>>
          /\ Returned("index_open", Some(order), r.ret)
    /\ UNCHANGED <<root, disk, blobs, tmpfile, codecVars, chunkVars, pathVars,
                   verifyVars>>

SpecOpen == OpenInit /\ [][IndexOpen]_vars

\* C21: after a successful open every indexed object is filed under its
\* own digest: the file at the path of its id holds it.
C21_OpenChecksPaths ==
    (op = "index_open" /\ ret.ok)
        => \A id \in DOMAIN objects :
              /\ id \in DOMAIN objdir[1]
              /\ objdir[1][id] = Some(objects[id])

\* A permanode: a Dict whose dhstore_kind is the string "permanode".
IsPermanode(data) ==
    /\ data[1] = "Dict"
    /\ S_dhstore_kind \in DOMAIN data[2]
    /\ data[2][S_dhstore_kind] = PString(S_permanode)

\* C22: open fails when the root names no loaded object, when the root is
\* not a Dict, when its log is not a Reference, or when the object log
\* names is missing or is not a permanode; otherwise it succeeds with the
\* log set to that permanode, or unset when the root has no log key.
C22_OpenChecksRoot ==
    (op = "index_open" /\ ~ret.panic)
        => LET loaded == {objdir[1][p][1] : p \in DOMAIN objdir[1]}
               ids == {object_id(d) : d \in loaded}
               entry == dict_get(root[2][2], S_log)
               bad == \/ root \notin ids
                      \/ root[2][1] # "Dict"
                      \/ /\ entry # None
                         /\ \/ entry[1][1] # "Reference"
                            \/ entry[1][2] \notin ids
                            \/ ~IsPermanode(entry[1][2][2])
           IN  /\ (\A p \in DOMAIN objdir[1] : objdir[1][p] # None)
                     => (ret.ok <=> ~bad)
               /\ ret.ok => log = IF entry = None THEN None
                                  ELSE Some(entry[1][2])

\* What an object points at: one entry <<target, position-key, source>>
\* for each of its Reference and Blob values, under its dict key or its
\* list index (from 0).
object_links(id, data) ==
    IF data[1] = "Dict"
    THEN {<<data[2][k][2], Backkey_Key(k), id>> :
             k \in {j \in DOMAIN data[2] :
                       data[2][j][1] \in {"Reference", "Blob"}}}
    ELSE {<<data[2][i][2], Backkey_Index(i - 1), id>> :
             i \in {j \in DOMAIN data[2] :
                       data[2][j][1] \in {"Reference", "Blob"}}}

\* C23: the back-reference index holds (position-key, source) under a
\* target exactly when source is an object of the index with a Reference
\* or Blob property naming that target at that position.
C23_BacklinksExact ==
    UNION {{<<t, e[1], e[2]>> : e \in backlinks[t]} : t \in DOMAIN backlinks}
        = UNION {object_links(id, objects[id]) : id \in DOMAIN objects}

-----------------------------------------------------------------------------
(* Permanodes and their claims: add on an open store, of one permanode   *)
(* (ascending, descending, typed single, typed set) and of claims on it  *)

S_minus_date == <<45, 100, 97, 116, 101>>

\* The greatest sort value of a claim.
MaxDate == 2

\* Well-formed permanodes: sort -date, type "single", type "set" (P1 has
\* sort +date and no type).
PDesc == DictData((S_dhstore_kind :> PString(S_permanode)) @@
                  (S_random :> PString([i \in 1..HASH_SIZE |-> 97])) @@
                  (S_sort :> PString(S_minus_date)))
PSingle == DictData((S_dhstore_kind :> PString(S_permanode)) @@
                    (S_random :> PString([i \in 1..HASH_SIZE |-> 97])) @@
                    (S_sort :> PString(S_plus_date)) @@
                    (S_type :> PString(S_single)))
PSet == DictData((S_dhstore_kind :> PString(S_permanode)) @@
                 (S_random :> PString([i \in 1..HASH_SIZE |-> 97])) @@
                 (S_sort :> PString(S_plus_date)) @@
                 (S_type :> PString(S_set)))

Permanodes == {P1, PDesc, PSingle, PSet}

\* The claims on permanode p: with each date and the value F1, with date 1
\* and the value L1, with no date, and with a value that is no Reference.
ClaimOn(p, j, v) ==
    DictData((S_dhstore_kind :> PString(S_claim)) @@
             (S_node :> PReference(object_id(p))) @@
             (S_value :> PReference(object_id(v))) @@
             (S_date :> PInteger(Digit(j))))
ClaimNoDate(p) ==
    DictData((S_dhstore_kind :> PString(S_claim)) @@
             (S_node :> PReference(object_id(p))) @@
             (S_value :> PReference(object_id(F1))))
ClaimBadValue(p) ==
    DictData((S_dhstore_kind :> PString(S_claim)) @@
             (S_node :> PReference(object_id(p))) @@
             (S_value :> PString(S_date)) @@
             (S_date :> PInteger(Digit(1))))

ClaimsOn(p) ==
    {ClaimOn(p, j, F1) : j \in 1..MaxDate}
        \cup {ClaimOn(p, 1, L1), ClaimNoDate(p), ClaimBadValue(p)}

\* The permanode an object of this universe is about.
Subject(data) ==
    IF S_node \in DOMAIN data[2] THEN data[2][S_node][2] ELSE object_id(data)

ClaimsUniverse == Permanodes \cup UNION {ClaimsOn(p) : p \in Permanodes}

\* ObjectIndex::add of a permanode or of a claim; a run is about one
\* permanode.  The file is written whole or is not created (a file cut
\* short changes nothing in memory, and is drawn in IndexAdd).
ClaimAdd ==
    /\ ~Panicked
    /\ \E data \in ClaimsUniverse, io \in {"ok", "open_fails"} :
       /\ \A id \in DOMAIN disk :
             id[2] \in ClaimsUniverse => Subject(id[2]) = Subject(data)
       /\ \E order \in IF object_id(data) \in DOMAIN claims
                       THEN Orders(claims[object_id(data)]) ELSE {<<>>} :
             \E r \in {MemoryIndex_add(IndexState, data, io, order)} :
                 /\ SetIndex(r.ix)
                 /\ disk' = r.disk
                 /\ Returned("add", Some(data), r.ret)
    /\ UNCHANGED <<root, log, blobs, tmpfile, cin, cout, chunkVars, pathVars,
                   verifyVars>>

SpecClaims == Init /\ [][ClaimAdd]_vars

\* The claims inserted so far that are well-formed (node and value are
\* References), name the permanode p and carry its sort field.
Eligible(p) ==
    {c \in DOMAIN objects :
        /\ objects[c][1] = "Dict"
        /\ dict_get(objects[c][2], S_dhstore_kind) = Some(PString(S_claim))
        /\ dict_get(objects[c][2], S_node) = Some(PReference(p))
        /\ S_value \in DOMAIN objects[c][2]
        /\ objects[c][2][S_value][1] = "Reference"
        /\ permanodes[p].sort.field \in DOMAIN objects[c][2]}

\* The sort value of an eligible claim of p.
SortValue(p, c) == objects[c][2][permanodes[p].sort.field]

\* C24: a permanode of type single (type absent, or "single") has at most
\* one indexed claim, which is an eligible claim with the greatest sort
\* value when the sort is ascending, the smallest when it is descending.
C24_SingleKeepsLatest ==
    \A p \in DOMAIN permanodes :
       (p \in DOMAIN objects
          /\ (S_type \notin DOMAIN objects[p][2]
                \/ objects[p][2][S_type] = PString(S_single)))
        => /\ Cardinality(permanodes[p].claims) <= 1
           /\ Eligible(p) = {} => permanodes[p].claims = {}
           /\ Eligible(p) # {} =>
                 \E e \in permanodes[p].claims :
                    /\ e[2] \in Eligible(p)
                    /\ e[1] = SortValue(p, e[2])
                    /\ \A c \in Eligible(p) :
                          IF permanodes[p].sort.dir = "Ascending"
                          THEN property_cmp(SortValue(p, c), e[1]) <= 0
                          ELSE property_cmp(e[1], SortValue(p, c)) <= 0

\* C27: the indexed claim set of a permanode does not depend on insertion
\* order: it is the set that inserting the permanode first and then its
\* claims gives, whatever the order among the claims.
C27_OrderIndependent ==
    \A p \in DOMAIN permanodes :
       p \in DOMAIN claims =>
          \A order \in Orders(claims[p]) :
             permanodes[p].claims =
                replay_claims(objects, [permanodes[p] EXCEPT !.claims = {}],
                              order).node.claims

\* C28: the indexed claim set of a permanode of type set is exactly the
\* set of the eligible claims inserted so far.
C28_SetKeepsAll ==
    \A p \in DOMAIN permanodes :
       (p \in DOMAIN objects
          /\ dict_get(objects[p][2], S_type) = Some(PString(S_set)))
        => {e[2] : e \in permanodes[p].claims} = Eligible(p)

\* C25: no decoder nests deeper than MAX_DEPTH: given n containers one in
\* the other, BItem::parse and parse_raw accept them when n <= MAX_DEPTH
\* and they are closed, and return an error when n > MAX_DEPTH, which is
\* DepthExceeded unless the bytes end with the container past MAX_DEPTH;
\* and deserialize, given more than MAX_DEPTH containers, returns an
\* error, and when nothing closes them it stops at the one past MAX_DEPTH
\* rather than reading on: it never gets to the end of the bytes.
C25_DepthBounded ==
    (cout # None /\ cin[1].kind = "nested")
        => /\ cout[1].by \in {"parse", "parse_raw"}
                => IF cin[1].v.n <= MAX_DEPTH
                   THEN cin[1].v.closed => cout[1].r.ok
                   ELSE /\ ~cout[1].r.ok
                        /\ (cin[1].v.closed \/ cin[1].v.n > MAX_DEPTH + 1)
                              => cout[1].r.err = "DepthExceeded"
           /\ (cout[1].by = "deserialize" /\ cin[1].v.n > MAX_DEPTH)
                => /\ ~cout[1].r.ok
                   /\ ~cin[1].v.closed => cout[1].r.err # "UnexpectedEof"

\* The digits of an encoded integer name a number above i32::MAX, or with
\* a '-' a number below i32::MIN.
OutOfI32(text) ==
    LET neg == text[1] = 45
        digits == IF neg THEN Tail(text) ELSE text
        most == <<50, 49, 52, 55, 52, 56, 51, 54, 52, IF neg THEN 56 ELSE 55>>
    IN  Len(digits) > 10 \/ (Len(digits) = 10 /\ bytes_cmp(digits, most) > 0)

\* C30: BItem::parse(v.serialize()) is Ok(v) for every BItem v, its
\* integers anywhere in i32, i32::MIN and i32::MAX included; and an encoded
\* integer outside the range of i32 is rejected with ParseError.
C30_IntegerRoundTrip ==
    /\ (cout # None /\ cout[1].by = "item_roundtrip")
          => cout[1].r.ok /\ cout[1].r.item = cin[1].v
    /\ (cout # None /\ cout[1].by = "parse" /\ cin[1].kind = "bytes"
          /\ \E text \in IntTexts :
                OutOfI32(text) /\ cin[1].v = <<105>> \o text \o <<101>>)
          => ~cout[1].r.ok /\ cout[1].r.err = "ParseError"

\* C29: after copy_blob returns, with success or with an error, the
\* temporary file is gone: renamed to the blob's path when the blob was
\* stored by this call, unlinked otherwise.
C29_TmpFileGone ==
    op = "copy_blob" => tmpfile = None

\* C26: the log permanode that create writes with permanode() has the shape
\* index_permanode requires (dhstore_kind "permanode", a random String of
\* HASH_SIZE bytes, a sort field), so that once the store is opened the log
\* is registered in the permanode map.
C26_SeedLogRegistered ==
    (op = "open" /\ ret.ok /\ log # None) =>
        /\ log[1] \in DOMAIN objects
        /\ dict_get(objects[log[1]][2], S_dhstore_kind)
               = Some(PString(S_permanode))
        /\ Len(dict_get(objects[log[1]][2], S_random)[1][2]) = HASH_SIZE
        /\ dict_get(objects[log[1]][2], S_sort) # None
        /\ log[1] \in DOMAIN permanodes

\* C31: when open reaches an object file that cannot be opened or decoded,
\* it returns an error of the class CorruptedStore and no index.
C31_OpenFailsCorrupted ==
    (/\ op = "index_open"
     /\ ~ret.panic
     /\ \E p \in DOMAIN objdir[1] : objdir[1][p] = None)
        => /\ ret = ErrOf("CorruptedStore")
           /\ objects = EmptyMap
           /\ log = None

\* C32: an add of an object that is not in the index but whose file was
\* left whole in the objects directory (by a collection that removed the
\* object) succeeds: it returns the digest, with the object indexed and its
\* file on disk.
C32_AddAfterCollect ==
    [][(/\ op' = "add"
        /\ object_id(arg'[1]) \notin DOMAIN objects
        /\ object_id(arg'[1]) \in DOMAIN disk
        /\ disk[object_id(arg'[1])] = "complete")
          => /\ ret' = Ok(object_id(arg'[1]))
             /\ object_id(arg'[1]) \in DOMAIN objects'
             /\ object_id(arg'[1]) \in DOMAIN disk'
             /\ disk'[object_id(arg'[1])] = "complete"]_vars

\* C33: every claim digest recorded in the claims map or in a permanode's
\* indexed claims, and every key of the permanodes map, names an object
\* present in objects; and no add panics on a claim that is gone.
C33_IndexNamesObjects ==
    /\ \A p \in DOMAIN claims : claims[p] \subseteq DOMAIN objects
    /\ \A p \in DOMAIN permanodes :
          /\ p \in DOMAIN objects
          /\ \A e \in permanodes[p].claims : e[2] \in DOMAIN objects
    /\ ~(op = "add" /\ ret.panic)

-----------------------------------------------------------------------------
(* The walk of verify and collect_garbage, one iteration of its loop at a *)
(* time, over any map of objects.  walk reads the map by key and never    *)
(* recomputes a digest, so the graphs include cycles, self-references,    *)
(* repeated references and references to an object that is missing.       *)

\* Most properties of an object of a walked graph.
MaxRefs == 2

\* An id that no walked map holds.
WalkMissing == [bytes |-> [i \in 1..HASH_SIZE |-> 255]]

\* The walked maps: objects under ID0 and ID1, each a list or a dict of
\* references to ID0, to ID1 or to the missing id, and of blobs.
WalkProperties ==
    {PReference(ID0), PReference(ID1), PReference(WalkMissing), PBlob(B1)}

WalkData ==
    {ListData(l) : l \in Seqs(WalkProperties, MaxRefs)}
        \cup {DictData((S_contents :> a) @@ (S_tree :> b)) :
                 a, b \in WalkProperties}

WalkGraphs == UNION {[S -> WalkData] : S \in SUBSET {ID0, ID1}}

\* The locals of walk: the queue `open`, the sets `alive` and
\* `live_blobs`.
WalkLocals(queue, alive, live_blobs) ==
    [open |-> queue, alive |-> alive, live_blobs |-> live_blobs]

\* walk, up to its loop
walk_start(objs, rootId) ==
    WalkLocals(IF rootId \in DOMAIN objs THEN <<rootId>> ELSE <<>>, {}, {})

\* An iteration of walk's loop that does not test `alive`.
walk_step_revisit(objs, collect, w) ==
    LET id == Head(w.open)
        handled(refs) ==
            [w |-> WalkLocals(
                       Tail(w.open) \o [i \in 1..Len(refs) |-> refs[i][2]],
                       w.alive \cup {id}, w.live_blobs),
             expanded |-> TRUE]
    IN  IF id \notin DOMAIN objs
        THEN [w |-> WalkLocals(Tail(w.open), w.alive, w.live_blobs),
              expanded |-> FALSE]
        ELSE handled(SelectSeq(data_values(objs[id]),
                               LAMBDA v : v[1] = "Reference"))

\* One iteration of the `while let Some(id) = open.pop_front()` loop of
\* walk; w.open is not empty.  The result says whether the object was
\* expanded (its values handled).
walk_step(objs, collect, w) ==
    LET id == Head(w.open)
        skipped == [w |-> WalkLocals(Tail(w.open), w.alive, w.live_blobs),
                    expanded |-> FALSE]
        handled(values) ==
            LET refs == SelectSeq(values, LAMBDA v : v[1] = "Reference")
                found == {values[i][2] :
                             i \in {j \in DOMAIN values :
                                       values[j][1] = "Blob"}}
            IN  [w |-> WalkLocals(
                           Tail(w.open)
                               \o [i \in 1..Len(refs) |-> refs[i][2]],
                           w.alive \cup {id},
                           IF collect THEN w.live_blobs \cup found
                           ELSE w.live_blobs),
                 expanded |-> TRUE]
    IN  IF id \notin DOMAIN objs THEN skipped
        ELSE IF id \in w.alive THEN skipped
        ELSE handled(data_values(objs[id]))

\* walk, after its loop: the dead objects are removed when collecting
walk_end(objs, collect, w) ==
    [objects |-> IF collect
                 THEN Restrict(objs, {id \in DOMAIN objs : id \in w.alive})
                 ELSE objs,
     ret |-> Ok(w.live_blobs)]

WalkInit ==
    /\ op = "none"
    /\ arg = None
    /\ ret = OkUnit
    /\ before = None
    /\ objects \in WalkGraphs
    /\ backlinks = EmptyMap
    /\ claims = EmptyMap
    /\ permanodes = EmptyMap
    /\ root \in {ID0, ID1, WalkMissing}
    /\ log = None
    /\ disk = EmptyMap
    /\ blobs = EmptyMap
    /\ tmpfile = None
    /\ PathOf(root)
    /\ CodecIdle
    /\ ChunkerIdle
    /\ VerifyIdle

\* walk(collect) is called: the queue holds the root when it is present
WalkStart ==
    /\ walking = None
    /\ \E collect \in BOOLEAN :
          walking' = Some([pc |-> "loop", collect |-> collect,
                           w |-> walk_start(objects, root),
                           expanded |-> <<>>])
    /\ UNCHANGED <<storeVars, codecVars, chunkVars, pathVars, blobdir,
                   listing, logged>>

\* One iteration of the loop; `expanded` records the objects whose values
\* were handled, in order.
WalkStep ==
    /\ walking # None
    /\ walking[1].pc = "loop"
    /\ walking[1].w.open # <<>>
    /\ \E r \in {walk_step(objects, walking[1].collect, walking[1].w)} :
          walking' = Some([walking[1] EXCEPT
                              !.w = r.w,
                              !.expanded =
                                  IF r.expanded
                                  THEN Append(@, Head(walking[1].w.open))
                                  ELSE @])
    /\ UNCHANGED <<storeVars, codecVars, chunkVars, pathVars, blobdir,
                   listing, logged>>

\* The queue is empty: walk removes the dead objects and returns
WalkEnd ==
    /\ walking # None
    /\ walking[1].pc = "loop"
    /\ walking[1].w.open = <<>>
    /\ \E r \in {walk_end(objects, walking[1].collect, walking[1].w)} :
          /\ objects' = r.objects
          /\ Returned("walk", Some(walking[1].collect), r.ret)
    /\ walking' = Some([walking[1] EXCEPT !.pc = "done"])
    /\ UNCHANGED <<backlinks, claims, permanodes, root, log, disk, blobs,
                   tmpfile, codecVars, chunkVars, pathVars, blobdir, listing,
                   logged>>

NextWalk == WalkStart \/ WalkStep \/ WalkEnd

SpecWalk == WalkInit /\ [][NextWalk]_vars

\* walk runs in the calling thread: every step that can be taken is taken
SpecWalkFair == SpecWalk /\ WF_vars(NextWalk)

\* C34: the walk terminates on every finite map of objects, with cycles,
\* self-references, repeated references and references to missing objects,
\* and it expands each present object at most once.
C34_WalkTerminates ==
    /\ <>(walking # None /\ walking[1].pc = "done")
    /\ [](walking # None =>
             /\ \A i, j \in DOMAIN walking[1].expanded :
                   walking[1].expanded[i] = walking[1].expanded[j] => i = j
             /\ \A i \in DOMAIN walking[1].expanded :
                   walking[1].expanded[i] \in DOMAIN objects
                       \/ walking[1].pc = "done")

\* A walk has ended on a map with a cycle between two objects, one of which
\* references itself, names the other twice or names the missing object.
C34_Witness ==
    /\ walking # None
    /\ walking[1].pc = "done"
    /\ ~walking[1].collect
    /\ walking[1].expanded = <<ID0, ID1>>
    /\ objects[ID0] = ListData(<<PReference(ID1), PReference(ID1)>>)
    /\ objects[ID1] \in {ListData(<<PReference(ID1), PReference(ID0)>>),
                         ListData(<<PReference(WalkMissing),
                                    PReference(ID0)>>)}

-----------------------------------------------------------------------------
(* Chunks::next_chunk on a reader whose reads may fail *)

\* Most reads that fail in a run.
MaxFailures == 1

\* Some(Err(e)), as an event of the iteration
ReadFailed == <<"Err", <<>>>>

\* Chunks::next_chunk on a reader that may fail.  `read` is what
\* self.reader.read returns if it is called: Ok(bytes), the empty sequence
\* at the end of the stream, or Err.  pos is set to 0 before the read, len
\* is assigned only when the read succeeded.
next_chunk_reading(self, read) ==
    IF self.pos = self.len /\ ~read.ok
    THEN [self |-> [self EXCEPT !.pos = 0], ret |-> Some(ReadFailed)]
    ELSE next_chunk(self, IF read.ok THEN read.v[1] ELSE <<>>)

\* One call of next_chunk, until the end of the stream was returned; the
\* read it makes may fail, and a read that failed has taken no byte from
\* the stream.
NextChunkReading ==
    /\ ~Finished
    /\ \E fails \in BOOLEAN :
          /\ fails => /\ iter.chunks.pos = iter.chunks.len
                      /\ Len(SelectSeq(yielded,
                                       LAMBDA y : y = Some(ReadFailed)))
                            < MaxFailures
          /\ \E r \in {next_chunk_reading(iter.chunks,
                                          IF fails THEN Err
                                          ELSE Ok(NextRead))} :
                /\ iter' = [chunks |-> r.self,
                            nread |-> IF ~fails
                                         /\ iter.chunks.pos = iter.chunks.len
                                         /\ iter.nread < Len(stream.reads)
                                      THEN iter.nread + 1 ELSE iter.nread]
                /\ yielded' = Append(yielded, r.ret)
    /\ UNCHANGED <<storeVars, codecVars, pathVars, verifyVars, stream,
                   emitted>>

SpecChunkerIo == ChunkerInit /\ [][NextChunkReading]_vars

\* C35: over any run of next_chunk calls, calls made after a read error
\* included, each byte of the input is delivered in at most one Data slice
\* and the bytes are delivered in input order: the Data slices end to end
\* are the start of the stream.
C35_ErrorKeepsStream ==
    \A delivered \in {AllData(Events(yielded))} :
        /\ Len(delivered) <= Len(stream.bytes)
        /\ delivered = SubSeq(stream.bytes, 1, Len(delivered))

\* What the calls of next_chunk return, up to the end of the stream, from
\* the state `self` on a reader that gives `reads`.
RECURSIVE NextChunkEvents(_, _, _)
NextChunkEvents(self, reads, out) ==
    LET called(r) ==
            IF r.ret = None THEN out
            ELSE NextChunkEvents(r.self,
                                 IF self.pos = self.len /\ reads # <<>>
                                 THEN Tail(reads) ELSE reads,
                                 Append(out, r.ret[1]))
    IN  called(next_chunk(self, IF reads = <<>> THEN <<>> ELSE Head(reads)))

\* The bytes of the stream after offset k, delivered in one read.
SuffixRead(k) ==
    IF k >= Len(stream.bytes) THEN <<>>
    ELSE <<SubSeq(stream.bytes, k + 1, Len(stream.bytes))>>

\* The boundaries after offset k, counted from k.
OffsetsAfter(events, k) == {e - k : e \in {x \in EndOffsets(events) : x > k}}

\* C36: when a boundary falls after offset k of the stream, the boundaries
\* found in the rest of the stream are those found from a fresh state on
\* the bytes after k alone, shifted by k, in read_chunks and in next_chunk.
C36_BoundariesRestart ==
    /\ emitted # None
          => \A k \in EndOffsets(emitted[1]) :
                OffsetsAfter(emitted[1], k)
                    = EndOffsets(read_chunks(SuffixRead(k), stream.nbits))
    /\ Finished
          => \A k \in EndOffsets(Events(yielded)) :
                OffsetsAfter(Events(yielded), k)
                    = EndOffsets(NextChunkEvents(chunks(stream.nbits),
                                                 SuffixRead(k), <<>>))

\* Both interfaces went through a stream with a boundary inside it, bytes
\* after it that are not a boundary, and a later boundary.
C36_Witness ==
    /\ emitted # None
    /\ Finished
    /\ \E k \in EndOffsets(emitted[1]) :
          /\ 0 < k
          /\ k + 1 < Len(stream.bytes)
          /\ k + 1 \notin EndOffsets(emitted[1])
          /\ OffsetsAfter(emitted[1], k) # {}
          /\ k \in EndOffsets(Events(yielded))

=============================================================================
